---------------------------- MODULE Spec2Model ----------------------------
(***************************************************************************)
(* A model of rlztools' Relative Lempel-Ziv codec: the parser of           *)
(* rlzparse.cpp, the token codec of rlzparse.cpp / rlzcommon.cpp and the   *)
(* unparser of rlzunparse.cpp, instantiated at T = uint8_t, S = uint32_t.  *)
(*                                                                         *)
(* 64-bit machine integers (uint64_t, int64_t in two's complement) are     *)
(* tuples of four 16-bit limbs, least significant first, so that every     *)
(* operation keeps its width.  Bytes are the integers 0..255.              *)
(***************************************************************************)
EXTENDS Integers, Sequences, FiniteSets

VARIABLES
    dict,          \* FileReader<T> dict: the dictionary's symbols
    sa,            \* FileReader<S> sa: the suffix array (0-based entries)
    heap,          \* the memory that follows dict's data_array
    source_file,   \* the symbols of the parser's input file
    src_pos,       \* source_file's read position, in symbols
    src_eof,       \* source_file.eof()
    has_unget,     \* Parser::has_unget
    unget_buffer,  \* Parser::unget_buffer
    read_counter,  \* Parser::read_counter
    output_mode,   \* the token format of the encoded file
    rlz_file,      \* the bytes of the encoded file
    bytes_output,  \* *bytes_output of Parser::work
    num_tokens,    \* *num_tokens of Parser::work
    emitted,       \* the tokens handed to output_token so far, in order
    pending,       \* tokens a caller still has to hand to output_token
    oob_read,      \* a dictionary read outside data_array has happened
    rd_pos,        \* RLZInputReader::infile's read position, in bytes
    rd_eof,        \* infile.eof()
    rd_fail,       \* infile.fail()
    decoded,       \* the tokens RLZInputReader::next_token has returned
    start_pos,     \* unparse's start_pos (I)
    stop_pos,      \* unparse's stop_pos (J)
    toks_read,     \* unparse's toks_read
    syms_written,  \* unparse's syms_written
    output_pos,    \* unparse's output_pos
    outfile,       \* the symbols OutputWriter has written
    exit_status,   \* 0 while running normally, else the process's exit code
    pc             \* which program, and which part of it, runs next

vars == << dict, sa, heap, source_file, src_pos, src_eof, has_unget,
           unget_buffer, read_counter, output_mode, rlz_file, bytes_output,
           num_tokens, emitted, pending, oob_read, rd_pos, rd_eof, rd_fail,
           decoded, start_pos, stop_pos, toks_read, syms_written,
           output_pos, outfile, exit_status, pc >>

---------------------------------------------------------------------------
(* Program constants.                                                      *)

FMT_32X2 == 846737971
FMT_64X2 == 846738486
FMT_ASCII == 1954047348
FMT_VBYTE == 1954112118

Formats == {FMT_32X2, FMT_64X2, FMT_ASCII, FMT_VBYTE}

EXIT_BUG == 33
EXIT_INVALID_INPUT == 1
\* std::terminate after an uncaught exception: the process dies of SIGABRT
EXIT_ABORT == 128 + 6
\* a read of unmapped memory: the process dies of SIGSEGV
EXIT_SEGV == 128 + 11

---------------------------------------------------------------------------
(* 64-bit integers as four 16-bit limbs.                                   *)

LimbBase == 256 * 256

U64Zero == << 0, 0, 0, 0 >>
U64One == << 1, 0, 0, 0 >>
ULLONG_MAX == << 65535, 65535, 65535, 65535 >>

\* a small natural number (below 2^31) as a 64-bit integer
U64(n) == << n % LimbBase, n \div LimbBase, 0, 0 >>

IsZero64(x) == x = U64Zero

\* the value of a 64-bit integer known to be below 2^31
Nat64(x) == x[1] + LimbBase * x[2]
FitsNat(x) == x[3] = 0 /\ x[4] = 0 /\ x[2] < 16384

\* signed reading: the top bit is the sign
IsNeg64(x) == x[4] >= 32768
IsPos64(x) == ~IsNeg64(x) /\ ~IsZero64(x)

RECURSIVE AddLimbs(_, _, _, _)
AddLimbs(a, b, i, carry) ==
    IF i > 4 THEN << >>
    ELSE LET s == a[i] + b[i] + carry
         IN  << s % LimbBase >> \o AddLimbs(a, b, i + 1, s \div LimbBase)

\* a + b modulo 2^64
Add64(a, b) == AddLimbs(a, b, 1, 0)

Not64(a) == << 65535 - a[1], 65535 - a[2], 65535 - a[3], 65535 - a[4] >>
Neg64(a) == Add64(Not64(a), U64One)
Sub64(a, b) == Add64(a, Neg64(b))

RECURSIVE LtLimbs(_, _, _)
LtLimbs(a, b, i) ==
    IF i < 1 THEN FALSE
    ELSE IF a[i] # b[i] THEN a[i] < b[i]
    ELSE LtLimbs(a, b, i - 1)

\* unsigned and signed comparison
ULt64(a, b) == LtLimbs(a, b, 4)

\* a faulty variant of SLt64: equal numbers count as smaller
SLt64_orequal(a, b) ==
    a = b \/ (IF IsNeg64(a) # IsNeg64(b) THEN IsNeg64(a) ELSE LtLimbs(a, b, 4))
SLt64(a, b) ==
    IF IsNeg64(a) # IsNeg64(b) THEN IsNeg64(a) ELSE LtLimbs(a, b, 4)
\* a faulty variant of SLe64: the comparison is strict
SLe64_strict(a, b) == SLt64(a, b)
SLe64(a, b) == a = b \/ SLt64(a, b)

Pow2(k) == 2 ^ k

\* a faulty shift: the bits that cross into the next limb are dropped
Shl64_low(v, shiftwidth) ==
    LET k == shiftwidth \div 16
        w == v * Pow2(shiftwidth % 16)
        limb(i) == IF i = k + 1 THEN w % LimbBase ELSE 0
    IN  << limb(1), limb(2), limb(3), limb(4) >>

\* (uint64_t) v << shiftwidth for a byte v and 0 <= shiftwidth < 64:
\* the bits shifted past bit 63 are lost
Shl64(v, shiftwidth) ==
    LET k == shiftwidth \div 16
        w == v * Pow2(shiftwidth % 16)
        limb(i) == IF i = k + 1 THEN w % LimbBase
                   ELSE IF i = k + 2 THEN w \div LimbBase
                   ELSE 0
    IN  << limb(1), limb(2), limb(3), limb(4) >>

\* x >> 7 of a non-negative value
Shr7(x) ==
    << (x[1] \div 128) + (x[2] % 128) * 512,
       (x[2] \div 128) + (x[3] % 128) * 512,
       (x[3] \div 128) + (x[4] % 128) * 512,
       x[4] \div 128 >>

\* x & 0x7F
Low7(x) == x[1] % 128

\* x <= 127, unsigned
Le127(x) == x[2] = 0 /\ x[3] = 0 /\ x[4] = 0 /\ x[1] <= 127

\* a faulty byte order: the eight bytes of x, most significant first
Bytes64_be(x) ==
    << x[4] \div 256, x[4] % 256, x[3] \div 256, x[3] % 256,
       x[2] \div 256, x[2] % 256, x[1] \div 256, x[1] % 256 >>

\* the eight bytes of x in memory (little-endian), and back
Bytes64(x) ==
    << x[1] % 256, x[1] \div 256, x[2] % 256, x[2] \div 256,
       x[3] % 256, x[3] \div 256, x[4] % 256, x[4] \div 256 >>
Bytes32(x) == << x[1] % 256, x[1] \div 256, x[2] % 256, x[2] \div 256 >>
FromBytes64(b) ==
    << b[1] + 256 * b[2], b[3] + 256 * b[4],
       b[5] + 256 * b[6], b[7] + 256 * b[8] >>
FromBytes32(b) == << b[1] + 256 * b[2], b[3] + 256 * b[4], 0, 0 >>


---------------------------------------------------------------------------
(* Tokens.                                                                 *)

\* RLZToken {start_pos, length} from two small natural numbers
Token(p, l) == [start_pos |-> U64(p), length |-> U64(l)]

end_sentinel == [start_pos |-> ULLONG_MAX, length |-> ULLONG_MAX]

is_end_sentinel(token) ==
    /\ token.start_pos = end_sentinel.start_pos
    /\ token.length = end_sentinel.length

---------------------------------------------------------------------------
(* std::to_string, std::stoul and std::stol on 64-bit integers; a string   *)
(* is a sequence of character codes.                                       *)

\* x divided by the small number d: quotient limbs and remainder
RECURSIVE DivLimbs(_, _, _, _)
DivLimbs(x, d, i, rem) ==
    IF i < 1 THEN [q |-> << >>, r |-> rem]
    ELSE LET cur == rem * LimbBase + x[i]
             rest == DivLimbs(x, d, i - 1, cur % d)
         IN  [q |-> rest.q \o << cur \div d >>, r |-> rest.r]
DivSmall(x, d) == DivLimbs(x, d, 4, 0)

RECURSIVE DecimalDigits(_)
DecimalDigits(x) ==
    IF IsZero64(x) THEN << >>
    ELSE CHOOSE r \in { DecimalDigits(dm.q) \o << 48 + dm.r >> :
                        dm \in { DivSmall(x, 10) } } : TRUE

\* std::to_string(unsigned long long)
to_string_u64(x) == IF IsZero64(x) THEN << 48 >> ELSE DecimalDigits(x)
\* std::to_string(long long)
to_string_i64(x) ==
    IF IsNeg64(x) THEN << 45 >> \o DecimalDigits(Neg64(x))
    ELSE to_string_u64(x)

\* x * b + d for small b, d: the low 64 bits and whether the value overflowed
RECURSIVE MulAddLimbs(_, _, _, _)
MulAddLimbs(x, b, i, carry) ==
    IF i > 4 THEN [v |-> << >>, over |-> carry > 0]
    ELSE LET cur == x[i] * b + carry
             rest == MulAddLimbs(x, b, i + 1, cur \div LimbBase)
         IN  [v |-> << cur % LimbBase >> \o rest.v, over |-> rest.over]

\* the value of character c as a digit in the given base, or -1
DigitValue(c, base) ==
    LET v == IF c >= 48 /\ c <= 57 THEN c - 48
             ELSE IF c >= 97 /\ c <= 102 THEN c - 87
             ELSE IF c >= 65 /\ c <= 70 THEN c - 55
             ELSE -1
    IN  IF v < base THEN v ELSE -1

\* the digits of s from index i on, accumulated as strtoul does: the
\* magnitude, how many digits were taken, and whether 64 bits overflowed
RECURSIVE ScanDigits(_, _, _, _, _, _)
ScanDigits(s, i, base, acc, n, over) ==
    IF i > Len(s) \/ DigitValue(s[i], base) < 0
    THEN [mag |-> acc, ndigits |-> n, over |-> over]
    ELSE CHOOSE r \in { ScanDigits(s, i + 1, base, m.v, n + 1, over \/ m.over) :
                        m \in { MulAddLimbs(acc, base, 1, DigitValue(s[i], base)) } } : TRUE

\* strtoul / strtol with base 0 on a word without white space: the sign,
\* the base prefix, then the digits
ScanNumber(s) ==
    LET neg == Len(s) >= 1 /\ s[1] = 45
        i0 == IF Len(s) >= 1 /\ (s[1] = 45 \/ s[1] = 43) THEN 2 ELSE 1
        hex == /\ Len(s) >= i0 + 2
               /\ s[i0] = 48
               /\ s[i0 + 1] \in {120, 88}
               /\ DigitValue(s[i0 + 2], 16) >= 0
        oct == ~hex /\ Len(s) >= i0 /\ s[i0] = 48
        base == IF hex THEN 16 ELSE IF oct THEN 8 ELSE 10
        sc == ScanDigits(s, IF hex THEN i0 + 2 ELSE i0, base, U64Zero, 0, FALSE)
    IN  [neg |-> neg, mag |-> sc.mag, ndigits |-> sc.ndigits, over |-> sc.over]

\* std::stoul(s, nullptr, 0): ok is FALSE when it throws
stoul(s) ==
    LET n == ScanNumber(s)
    IN  [ok |-> n.ndigits > 0 /\ ~n.over,
         v |-> IF n.neg THEN Neg64(n.mag) ELSE n.mag]

\* std::stol(s, nullptr, 0): ok is FALSE when it throws
stol(s) ==
    LET n == ScanNumber(s)
        inrange == IF n.neg
                   THEN ~IsNeg64(n.mag) \/ n.mag = << 0, 0, 0, 32768 >>
                   ELSE ~IsNeg64(n.mag)
    IN  [ok |-> n.ndigits > 0 /\ ~n.over /\ inrange,
         v |-> IF n.neg THEN Neg64(n.mag) ELSE n.mag]

---------------------------------------------------------------------------
(* output_token (rlzparse.cpp).                                            *)

\* the loop "while (token.start_pos > 0)" of the FMT_VBYTE case
RECURSIVE vbyte_pos_loop(_)
vbyte_pos_loop(x) ==
    IF IsZero64(x) THEN << >>
    ELSE << IF Le127(x) THEN x[1] ELSE Low7(x) + 128 >>
         \o vbyte_pos_loop(Shr7(x))

\* the loop "while (token.length > 0)": length is signed
RECURSIVE vbyte_len_loop(_)
vbyte_len_loop(x) ==
    IF ~IsPos64(x) THEN << >>
    ELSE << IF Le127(x) THEN x[1] ELSE Low7(x) + 128 >>
         \o vbyte_len_loop(Shr7(x))

\* a faulty encoder: no byte at all for the number zero
vbyte_start_pos_nozero(x) == vbyte_pos_loop(x)

vbyte_start_pos(x) ==
    (IF IsZero64(x) THEN << 0 >> ELSE << >>) \o vbyte_pos_loop(x)
vbyte_length(x) ==
    (IF IsZero64(x) THEN << 0 >> ELSE << >>) \o vbyte_len_loop(x)

\* the bytes output_token puts to *out for a token that is not the sentinel
output_token_bytes(token, mode) ==
    CASE mode = FMT_32X2 ->
           Bytes32(token.start_pos) \o Bytes32(token.length)
      [] mode = FMT_64X2 ->
           Bytes64(token.start_pos) \o Bytes64(token.length)
      [] mode = FMT_ASCII ->
           to_string_u64(token.start_pos) \o << 32 >>
           \o to_string_i64(token.length) \o << 10 >>
      [] mode = FMT_VBYTE ->
           vbyte_start_pos(token.start_pos) \o vbyte_length(token.length)

\* output_token: the bytes written and the value returned
output_token(token, mode) ==
    IF is_end_sentinel(token)
    THEN [out |-> << >>, ret |-> U64Zero]
    ELSE [out |-> output_token_bytes(token, mode),
          ret |-> IF IsPos64(token.length) THEN token.length ELSE U64One]

---------------------------------------------------------------------------
(* RLZInputReader (rlzcommon.cpp).  A read leaves the stream's position,   *)
(* eofbit and failbit in the result's pos, eof and fail; exit is the       *)
(* process's exit code when the call ends the process, else 0.             *)

\* istream::read of n bytes: what it stores and how it leaves the stream
stream_read(file, pos, n) ==
    IF Len(file) - pos >= n
    THEN [buf |-> SubSeq(file, pos + 1, pos + n), pos |-> pos + n,
          eof |-> FALSE, fail |-> FALSE]
    ELSE [buf |-> SubSeq(file, pos + 1, Len(file)), pos |-> Len(file),
          eof |-> TRUE, fail |-> TRUE]

next_token_32x2(file, pos) ==
    LET r == stream_read(file, pos, 8)
    IN  IF r.fail
        THEN [token |-> end_sentinel, pos |-> r.pos, eof |-> r.eof,
              fail |-> r.fail, exit |-> 0]
        ELSE [token |-> [start_pos |-> FromBytes32(SubSeq(r.buf, 1, 4)),
                         length |-> FromBytes32(SubSeq(r.buf, 5, 8))],
              pos |-> r.pos, eof |-> r.eof, fail |-> r.fail, exit |-> 0]

next_token_64x2(file, pos) ==
    LET r == stream_read(file, pos, 16)
    IN  IF r.fail
        THEN [token |-> end_sentinel, pos |-> r.pos, eof |-> r.eof,
              fail |-> r.fail, exit |-> 0]
        ELSE [token |-> [start_pos |-> FromBytes64(SubSeq(r.buf, 1, 8)),
                         length |-> FromBytes64(SubSeq(r.buf, 9, 16))],
              pos |-> r.pos, eof |-> r.eof, fail |-> r.fail, exit |-> 0]

\* std::isspace in the "C" locale
IsSpace(c) == c = 32 \/ (c >= 9 /\ c <= 13)

RECURSIVE SkipSpace(_, _)
SkipSpace(file, pos) ==
    IF pos < Len(file) /\ IsSpace(file[pos + 1])
    THEN SkipSpace(file, pos + 1) ELSE pos

RECURSIVE WordEnd(_, _)
WordEnd(file, pos) ==
    IF pos < Len(file) /\ ~IsSpace(file[pos + 1])
    THEN WordEnd(file, pos + 1) ELSE pos

\* infile >> std::string: skip white space, then take characters up to the
\* next white space or the end of the file
stream_word(file, pos) ==
    LET b == SkipSpace(file, pos)
        e == WordEnd(file, b)
    IN  IF b >= Len(file)
        THEN [word |-> << >>, pos |-> Len(file), eof |-> TRUE, fail |-> TRUE]
        ELSE [word |-> SubSeq(file, b + 1, e), pos |-> e,
              eof |-> e >= Len(file), fail |-> FALSE]

next_token_ascii(file, pos) ==
    LET result(p, l) ==
            LET position == stoul(p.word)
                length == stol(l.word)
            IN  IF p.eof
                THEN [token |-> end_sentinel, pos |-> p.pos, eof |-> p.eof,
                      fail |-> p.fail, exit |-> 0]
                ELSE IF ~position.ok \/ ~length.ok
                THEN [token |-> end_sentinel, pos |-> l.pos, eof |-> l.eof,
                      fail |-> l.fail, exit |-> EXIT_ABORT]
                ELSE [token |-> [start_pos |-> position.v,
                                 length |-> length.v],
                      pos |-> l.pos, eof |-> l.eof, fail |-> l.fail,
                      exit |-> 0]
        \* the two words read, position_s first
        reads == UNION { { result(p, l) : l \in { stream_word(file, p.pos) } } :
                         p \in { stream_word(file, pos) } }
    IN  CHOOSE r \in reads : TRUE

\* one of the two "while (shiftwidth < limit)" loops of next_token_vbyte,
\* from its head: how it ends ("limit": the loop condition, "break": a byte
\* without the continuation bit, "eof": infile.get() failed)
RECURSIVE vbyte_loop(_, _, _, _, _)
vbyte_loop(file, pos, acc, shiftwidth, limit) ==
    IF ~(shiftwidth < limit)
    THEN [how |-> "limit", v |-> acc, pos |-> pos, shiftwidth |-> shiftwidth]
    ELSE IF pos >= Len(file)
    THEN [how |-> "eof", v |-> acc, pos |-> pos, shiftwidth |-> shiftwidth]
    ELSE LET c == file[pos + 1]
         IN  IF c >= 128
             THEN vbyte_loop(file, pos + 1,
                             Add64(acc, Shl64(c % 128, shiftwidth)),
                             shiftwidth + 7, limit)
             ELSE [how |-> "break", v |-> Add64(acc, Shl64(c, shiftwidth)),
                   pos |-> pos + 1, shiftwidth |-> shiftwidth]

\* the token next_token_vbyte returns for a sequence that does not fit
vbyte_error_token == [start_pos |-> U64Zero, length |-> ULLONG_MAX]

\* a faulty decoder: the position's shiftwidth is not checked after its loop
next_token_vbyte_unchecked(file, pos) ==
    LET p == vbyte_loop(file, pos, U64Zero, 0, 64)
        l == vbyte_loop(file, p.pos, U64Zero, 0, 63)
    IN  IF p.how = "eof" \/ l.how = "eof"
        THEN [token |-> end_sentinel, pos |-> l.pos, eof |-> TRUE,
              fail |-> TRUE, exit |-> 0]
        ELSE IF l.shiftwidth >= 63
        THEN [token |-> vbyte_error_token, pos |-> l.pos, eof |-> FALSE,
              fail |-> FALSE, exit |-> 0]
        ELSE [token |-> [start_pos |-> p.v, length |-> l.v], pos |-> l.pos,
              eof |-> FALSE, fail |-> FALSE, exit |-> 0]

next_token_vbyte(file, pos) ==
    LET p == vbyte_loop(file, pos, U64Zero, 0, 64)
        l == vbyte_loop(file, p.pos, U64Zero, 0, 63)
    IN  IF p.how = "eof"
        THEN [token |-> end_sentinel, pos |-> p.pos, eof |-> TRUE,
              fail |-> TRUE, exit |-> 0]
        ELSE IF p.shiftwidth > 64
        THEN [token |-> vbyte_error_token, pos |-> p.pos, eof |-> FALSE,
              fail |-> FALSE, exit |-> 0]
        ELSE IF l.how = "eof"
        THEN [token |-> end_sentinel, pos |-> l.pos, eof |-> TRUE,
              fail |-> TRUE, exit |-> 0]
        ELSE IF l.shiftwidth >= 63
        THEN [token |-> vbyte_error_token, pos |-> l.pos, eof |-> FALSE,
              fail |-> FALSE, exit |-> 0]
        ELSE [token |-> [start_pos |-> p.v, length |-> l.v], pos |-> l.pos,
              eof |-> FALSE, fail |-> FALSE, exit |-> 0]

\* RLZInputReader::keep_going
keep_going(eof, fail) == ~(eof \/ fail)

\* RLZInputReader::next_token
RLZInputReader_next_token(file, pos, eof, fail, mode) ==
    IF eof \/ fail
    THEN [token |-> end_sentinel, pos |-> pos, eof |-> eof, fail |-> fail,
          exit |-> 0]
    ELSE CASE mode = FMT_32X2 -> next_token_32x2(file, pos)
           [] mode = FMT_64X2 -> next_token_64x2(file, pos)
           [] mode = FMT_ASCII -> next_token_ascii(file, pos)
           [] mode = FMT_VBYTE ->
                LET tok == next_token_vbyte(file, pos)
                IN  IF /\ tok.token.start_pos = U64Zero
                       /\ tok.token.length = ULLONG_MAX
                    THEN [tok EXCEPT !.exit = EXIT_INVALID_INPUT]
                    ELSE tok
           [] OTHER -> [token |-> end_sentinel, pos |-> pos, eof |-> eof,
                        fail |-> fail, exit |-> EXIT_BUG]

---------------------------------------------------------------------------
(* The token codec on its own: a caller hands a sequence of tokens to      *)
(* output_token, closes the file, and reads it back with                   *)
(* RLZInputReader::next_token until the end sentinel.                      *)

\* bounds of the codec's inputs
MaxToks == 2

\* 64-bit values around the places where the encodings change shape
Sample64 ==
    { U64Zero, U64(1), U64(127), U64(128), U64(300), U64(16383), U64(16384),
      << 65535, 65535, 0, 0 >>, << 0, 0, 1, 0 >>,
      << 65535, 65535, 65535, 255 >>, << 0, 0, 0, 256 >>,
      << 52719, 35243, 17767, 291 >>,
      << 65535, 65535, 65535, 32767 >>, << 0, 0, 0, 32768 >>,
      << 65534, 65535, 65535, 65535 >>, ULLONG_MAX }

\* start_pos in [0, 2^64), length in [0, 2^63)
SampleTokens ==
    { [start_pos |-> p, length |-> l] :
        p \in Sample64, l \in { x \in Sample64 : ~IsNeg64(x) } }

StreamTokens ==
    { Token(0, 1), Token(300, 2), Token(100, 0),
      [start_pos |-> ULLONG_MAX, length |-> << 0, 0, 1, 0 >>] }

RECURSIVE SeqsUpTo(_, _)
SeqsUpTo(S, n) ==
    IF n = 0 THEN { << >> }
    ELSE LET shorter == SeqsUpTo(S, n - 1)
         IN  shorter \cup { Append(s, x) : s \in shorter, x \in S }

CodecInputs ==
    SeqsUpTo(StreamTokens, MaxToks) \cup { << t >> : t \in SampleTokens }

ParserIdle ==
    /\ dict = << >> /\ sa = << >> /\ heap = << >>
    /\ source_file = << >> /\ src_pos = 0 /\ src_eof = FALSE
    /\ has_unget = FALSE /\ unget_buffer = 0 /\ read_counter = 0
    /\ num_tokens = 0 /\ oob_read = FALSE

WriterIdle ==
    /\ start_pos = 0 /\ stop_pos = 0 /\ toks_read = 0
    /\ syms_written = U64Zero /\ output_pos = U64Zero /\ outfile = << >>

ReaderFresh ==
    /\ rd_pos = 0 /\ rd_eof = FALSE /\ rd_fail = FALSE /\ decoded = << >>

InitCodec ==
    /\ ParserIdle /\ WriterIdle /\ ReaderFresh
    /\ pending \in CodecInputs
    /\ output_mode \in Formats
    /\ rlz_file = << >> /\ bytes_output = 0 /\ emitted = << >>
    /\ exit_status = 0
    /\ pc = "write"

\* the caller hands its next token to output_token
WriteToken ==
    /\ pc = "write" /\ pending # << >>
    /\ \E r \in { output_token(Head(pending), output_mode) } :
           /\ rlz_file' = rlz_file \o r.out
           /\ bytes_output' = bytes_output + Len(r.out)
    /\ emitted' = Append(emitted, Head(pending))
    /\ pending' = Tail(pending)
    /\ UNCHANGED << dict, sa, heap, source_file, src_pos, src_eof, has_unget,
                    unget_buffer, read_counter, output_mode, num_tokens,
                    oob_read, rd_pos, rd_eof, rd_fail, decoded, start_pos,
                    stop_pos, toks_read, syms_written, output_pos, outfile,
                    exit_status, pc >>

\* the file is closed and an RLZInputReader is constructed on it
CloseFile ==
    /\ pc = "write" /\ pending = << >>
    /\ pc' = "read"
    /\ UNCHANGED << dict, sa, heap, source_file, src_pos, src_eof, has_unget,
                    unget_buffer, read_counter, output_mode, rlz_file,
                    bytes_output, num_tokens, emitted, pending, oob_read,
                    rd_pos, rd_eof, rd_fail, decoded, start_pos, stop_pos,
                    toks_read, syms_written, output_pos, outfile,
                    exit_status >>

\* one call of RLZInputReader::next_token by a caller that stops at the
\* end sentinel
ReadToken ==
    /\ pc = "read"
    /\ \E r \in { RLZInputReader_next_token(rlz_file, rd_pos, rd_eof, rd_fail,
                                              output_mode) } :
           /\ rd_pos' = r.pos /\ rd_eof' = r.eof /\ rd_fail' = r.fail
           /\ exit_status' = r.exit
           /\ decoded' = IF r.exit # 0 THEN decoded
                         ELSE Append(decoded, r.token)
           /\ pc' = IF r.exit # 0 \/ is_end_sentinel(r.token)
                    THEN "done" ELSE "read"
    /\ UNCHANGED << dict, sa, heap, source_file, src_pos, src_eof, has_unget,
                    unget_buffer, read_counter, output_mode, rlz_file,
                    bytes_output, num_tokens, emitted, pending, oob_read,
                    start_pos, stop_pos, toks_read, syms_written, output_pos,
                    outfile >>

NextCodec == WriteToken \/ CloseFile \/ ReadToken

SpecCodec == InitCodec /\ [][NextCodec]_vars

---------------------------------------------------------------------------
(* The parser's inputs.                                                    *)

\* bounds of the parser's inputs
MaxDict == 3
MaxInput == 3

\* the symbols of dictionaries and of inputs (T = uint8_t); 'z' is in no
\* dictionary
DictSyms == { 97, 98 }
InputSyms == { 97, 98, 122 }
\* what the bytes after the dictionary's array may hold
HeapVals == { 0, 97 }

\* D[i ..] sorts strictly below D[j ..]: the end of the dictionary sorts
\* below every symbol
RECURSIVE SuffixLess(_, _, _)
SuffixLess(D, i, j) ==
    IF i >= Len(D) THEN j < Len(D)
    ELSE IF j >= Len(D) THEN FALSE
    ELSE IF D[i + 1] # D[j + 1] THEN D[i + 1] < D[j + 1]
    ELSE SuffixLess(D, i + 1, j + 1)

\* the sorted suffix array of D, as the external suffix sorter writes it
SuffixArrayOf(D) ==
    [k \in 1..Len(D) |->
        CHOOSE i \in 0..(Len(D) - 1) :
            Cardinality({ j \in 0..(Len(D) - 1) : SuffixLess(D, j, i) }) = k - 1]

---------------------------------------------------------------------------
(* Parser<T, S> (rlzparse.cpp).  The parser's stream state is a record io  *)
(* with the fields src_pos, src_eof, has_unget, unget_buffer and           *)
(* read_counter.                                                           *)

\* long long unsign(long long)
unsign(i) == IF i < 0 THEN 0 ELSE i

\* FileReader<T>::operator[] on the dictionary: data_array[i].  An index
\* past the array reads the memory that follows it.
dict_at(D, H, i) ==
    IF i >= 0 /\ i < Len(D) THEN D[i + 1]
    ELSE IF i >= Len(D) /\ i - Len(D) < Len(H) THEN H[i - Len(D) + 1]
    ELSE 0
dict_in_bounds(D, i) == i >= 0 /\ i < Len(D)

\* a faulty getnext: a failed read does not set the stream's eofbit
getnext_noeof(src, io) ==
    IF io.has_unget
    THEN [c |-> io.unget_buffer,
          io |-> [io EXCEPT !.has_unget = FALSE,
                            !.read_counter = io.read_counter + 1]]
    ELSE IF io.src_pos < Len(src)
    THEN [c |-> src[io.src_pos + 1],
          io |-> [io EXCEPT !.src_pos = io.src_pos + 1,
                            !.read_counter = io.read_counter + 1]]
    ELSE [c |-> 0,
          io |-> [io EXCEPT !.read_counter = io.read_counter + 1]]

\* Parser::getnext: the symbol it returns and the stream state it leaves
getnext(src, io) ==
    IF io.has_unget
    THEN [c |-> io.unget_buffer,
          io |-> [io EXCEPT !.has_unget = FALSE,
                            !.read_counter = io.read_counter + 1]]
    ELSE IF io.src_pos < Len(src)
    THEN [c |-> src[io.src_pos + 1],
          io |-> [io EXCEPT !.src_pos = io.src_pos + 1,
                            !.read_counter = io.read_counter + 1]]
    ELSE [c |-> 0,
          io |-> [io EXCEPT !.src_eof = TRUE,
                            !.read_counter = io.read_counter + 1]]

\* Parser::end_of_input
end_of_input(io) == io.src_eof /\ ~io.has_unget

\* a faulty unget: it stores the symbol but does not mark the slot as full
unget_lost(io, sym) ==
    [io EXCEPT !.unget_buffer = sym,
               !.read_counter = io.read_counter - 1]

\* a faulty unget: it does not take the symbol off read_counter
unget_nocount(io, sym) ==
    [io EXCEPT !.unget_buffer = sym,
               !.has_unget = TRUE]

\* Parser::unget
unget(io, sym) ==
    [io EXCEPT !.unget_buffer = sym,
               !.read_counter = io.read_counter - 1,
               !.has_unget = TRUE]

\* the while loop of Parser::search_left, from its head
RECURSIVE search_left_loop(_, _, _, _, _, _, _)
search_left_loop(D, SA, text_symbol, offset, old_left_bound, left, right) ==
    IF ~(left <= right) THEN -(left + 1)
    ELSE
      LET mid == (left + right) \div 2
      IN  IF SA[mid + 1] + offset >= unsign(Len(D))
          THEN search_left_loop(D, SA, text_symbol, offset, old_left_bound,
                                mid + 1, right)
          ELSE
            LET mid_symbol == D[SA[mid + 1] + offset + 1]
            IN  IF mid_symbol < text_symbol
                THEN search_left_loop(D, SA, text_symbol, offset,
                                      old_left_bound, mid + 1, right)
                ELSE IF mid_symbol > text_symbol
                THEN search_left_loop(D, SA, text_symbol, offset,
                                      old_left_bound, left, mid - 1)
                ELSE IF mid = old_left_bound THEN mid
                ELSE IF SA[mid] + offset >= unsign(Len(D)) THEN mid
                ELSE IF D[SA[mid] + offset + 1] = mid_symbol
                THEN search_left_loop(D, SA, text_symbol, offset,
                                      old_left_bound, left, mid - 1)
                ELSE mid

\* a faulty search: it starts one entry to the right of old_left_bound
search_left_skip(D, SA, text_symbol, offset, old_left_bound, right_bound) ==
    search_left_loop(D, SA, text_symbol, offset, old_left_bound,
                     old_left_bound + 1, right_bound)

\* Parser::search_left
search_left(D, SA, text_symbol, offset, old_left_bound, right_bound) ==
    search_left_loop(D, SA, text_symbol, offset, old_left_bound,
                     old_left_bound, right_bound)

\* the while loop of Parser::search_right, from its head
RECURSIVE search_right_loop(_, _, _, _, _, _, _)
search_right_loop(D, SA, text_symbol, offset, old_right_bound, left, right) ==
    IF ~(left <= right) THEN -(right - 1)
    ELSE
      LET mid == (left + right) \div 2
      IN  IF SA[mid + 1] + offset >= unsign(Len(D))
          THEN search_right_loop(D, SA, text_symbol, offset, old_right_bound,
                                 mid + 1, right)
          ELSE
            LET mid_symbol == D[SA[mid + 1] + offset + 1]
            IN  IF mid_symbol < text_symbol
                THEN search_right_loop(D, SA, text_symbol, offset,
                                       old_right_bound, mid + 1, right)
                ELSE IF mid_symbol > text_symbol
                THEN search_right_loop(D, SA, text_symbol, offset,
                                       old_right_bound, left, mid - 1)
                ELSE IF mid = old_right_bound THEN mid
                ELSE IF SA[mid + 2] + offset >= unsign(Len(D)) THEN mid
                ELSE IF D[SA[mid + 2] + offset + 1] = mid_symbol
                THEN search_right_loop(D, SA, text_symbol, offset,
                                       old_right_bound, mid + 1, right)
                ELSE mid

\* a faulty search: it returns the value of a failed search without its
\* sign
search_right_unsigned(D, SA, text_symbol, offset, left_bound, old_right_bound) ==
    LET r == search_right_loop(D, SA, text_symbol, offset, old_right_bound,
                               left_bound, old_right_bound)
    IN  IF r < 0 THEN 0 - r ELSE r

\* a faulty search: it gives up the last index of a range of several
search_right_minus(D, SA, text_symbol, offset, left_bound, old_right_bound) ==
    LET r == search_right_loop(D, SA, text_symbol, offset, old_right_bound,
                               left_bound, old_right_bound)
    IN  IF r > left_bound THEN r - 1 ELSE r

\* a faulty search: it starts one entry to the left of old_right_bound
search_right_skip(D, SA, text_symbol, offset, left_bound, old_right_bound) ==
    search_right_loop(D, SA, text_symbol, offset, old_right_bound,
                      left_bound, old_right_bound - 1)

\* Parser::search_right
search_right(D, SA, text_symbol, offset, left_bound, old_right_bound) ==
    search_right_loop(D, SA, text_symbol, offset, old_right_bound,
                      left_bound, old_right_bound)

\* what a call of Parser::next_token leaves: the token returned (or the
\* exit code), the stream state, the path it returned by, how many symbols
\* it took from the input, and whether it read past the dictionary's array
Returned(token, io, path, offset, oob) ==
    [token |-> token, io |-> io, exit |-> 0, path |-> path,
     offset |-> offset, oob |-> oob]
Exited(code, io, path, offset, oob) ==
    [token |-> end_sentinel, io |-> io, exit |-> code, path |-> path,
     offset |-> offset, oob |-> oob]

\* a faulty variant of single_match_loop: when the file ends it counts
\* the failed read as one more matched symbol
RECURSIVE single_match_loop_plus1(_, _, _, _, _, _, _, _, _)
single_match_loop_plus1(D, SA, H, src, io, c, offset, leftmost, oob) ==
    LET token_start_pos == SA[leftmost + 1]
    IN  IF ~(io.read_counter <= Len(src))
        THEN Returned(Token(SA[leftmost + 1], offset + 1), io, "single_eof",
                      offset + 1, oob)
        ELSE
          LET dict_sym_here == dict_at(D, H, token_start_pos + offset)
              oob2 == oob \/ ~dict_in_bounds(D, token_start_pos + offset)
              g == getnext(src, io)
          IN  IF c # dict_sym_here
              THEN Returned(Token(token_start_pos, offset), unget(io, c),
                            "single_mismatch", offset, oob2)
              ELSE single_match_loop_plus1(D, SA, H, src, g.io, g.c,
                                           offset + 1, leftmost, oob2)

\* the inner loop of next_token for the one suffix left, from its head
RECURSIVE single_match_loop(_, _, _, _, _, _, _, _, _)
single_match_loop(D, SA, H, src, io, c, offset, leftmost, oob) ==
    LET token_start_pos == SA[leftmost + 1]
    IN  IF ~(io.read_counter <= Len(src))
        THEN Returned(Token(SA[leftmost + 1], offset), io, "single_eof",
                      offset, oob)
        ELSE
          LET dict_sym_here == dict_at(D, H, token_start_pos + offset)
              oob2 == oob \/ ~dict_in_bounds(D, token_start_pos + offset)
              g == getnext(src, io)
          IN  IF c # dict_sym_here
              THEN Returned(Token(token_start_pos, offset), unget(io, c),
                            "single_mismatch", offset, oob2)
              ELSE single_match_loop(D, SA, H, src, g.io, g.c, offset + 1,
                                     leftmost, oob2)

\* the main loop of next_token, from its head
RECURSIVE token_loop(_, _, _, _, _, _, _, _, _, _, _, _)
token_loop(D, SA, H, src, io, c, offset, leftmost, rightmost, best_pos, best_len, matching_suffix_found) ==
    IF ~(io.read_counter <= Len(src))
    THEN IF end_of_input(io)
         THEN Returned(end_sentinel, io, "sentinel", offset, FALSE)
         ELSE Exited(EXIT_BUG, io, "outside_loop", offset, FALSE)
    ELSE IF end_of_input(io)
    THEN Returned(end_sentinel, io, "sentinel_in_loop", offset, FALSE)
    ELSE
      LET new_leftmost == search_left(D, SA, c, offset, leftmost, rightmost)
          new_rightmost ==
              search_right(D, SA, c, offset, new_leftmost, rightmost)
          g == getnext(src, io)
      IN  IF new_leftmost < 0
          THEN IF matching_suffix_found
               THEN Returned(Token(unsign(SA[best_pos + 1]), best_len),
                             unget(io, c), "no_match", offset, FALSE)
               ELSE Returned(Token(c, 0), io, "literal", offset, FALSE)
          ELSE IF new_rightmost < 0
          THEN Exited(EXIT_BUG, io, "failed_search", offset, FALSE)
          ELSE IF new_leftmost = new_rightmost
          THEN single_match_loop(D, SA, H, src, io, c, offset, new_leftmost,
                                 FALSE)
          ELSE IF end_of_input(g.io)
          THEN Returned(Token(SA[new_leftmost + 1], offset + 1), g.io,
                        "range_eof", offset + 1, FALSE)
          ELSE token_loop(D, SA, H, src, g.io, g.c, offset + 1,
                          new_leftmost, new_rightmost,
                          new_leftmost, offset + 1, TRUE)

\* Parser::next_token
Parser_next_token(D, SA, H, src, io) ==
    LET g == getnext(src, io)
    IN  token_loop(D, SA, H, src, g.io, g.c, 0, 0, Len(SA) - 1, 0, 0, FALSE)

\* the pairs (left, right) with which the while condition of
\* Parser::search_left is evaluated, in order; the search returns from
\* inside the loop unless the last pair has left > right
RECURSIVE search_left_steps(_, _, _, _, _, _, _)
search_left_steps(D, SA, text_symbol, offset, old_left_bound, left, right) ==
    IF ~(left <= right) THEN << << left, right >> >>
    ELSE
      LET mid == (left + right) \div 2
      IN  << << left, right >> >> \o
          (IF SA[mid + 1] + offset >= unsign(Len(D))
           THEN search_left_steps(D, SA, text_symbol, offset, old_left_bound,
                                  mid + 1, right)
           ELSE
             LET mid_symbol == D[SA[mid + 1] + offset + 1]
             IN  IF mid_symbol < text_symbol
                 THEN search_left_steps(D, SA, text_symbol, offset,
                                        old_left_bound, mid + 1, right)
                 ELSE IF mid_symbol > text_symbol
                 THEN search_left_steps(D, SA, text_symbol, offset,
                                        old_left_bound, left, mid - 1)
                 ELSE IF mid = old_left_bound THEN << >>
                 ELSE IF SA[mid] + offset >= unsign(Len(D)) THEN << >>
                 ELSE IF D[SA[mid] + offset + 1] = mid_symbol
                 THEN search_left_steps(D, SA, text_symbol, offset,
                                        old_left_bound, left, mid - 1)
                 ELSE << >>)

\* the same for Parser::search_right
RECURSIVE search_right_steps(_, _, _, _, _, _, _)
search_right_steps(D, SA, text_symbol, offset, old_right_bound, left, right) ==
    IF ~(left <= right) THEN << << left, right >> >>
    ELSE
      LET mid == (left + right) \div 2
      IN  << << left, right >> >> \o
          (IF SA[mid + 1] + offset >= unsign(Len(D))
           THEN search_right_steps(D, SA, text_symbol, offset,
                                   old_right_bound, mid + 1, right)
           ELSE
             LET mid_symbol == D[SA[mid + 1] + offset + 1]
             IN  IF mid_symbol < text_symbol
                 THEN search_right_steps(D, SA, text_symbol, offset,
                                         old_right_bound, mid + 1, right)
                 ELSE IF mid_symbol > text_symbol
                 THEN search_right_steps(D, SA, text_symbol, offset,
                                         old_right_bound, left, mid - 1)
                 ELSE IF mid = old_right_bound THEN << >>
                 ELSE IF SA[mid + 2] + offset >= unsign(Len(D)) THEN << >>
                 ELSE IF D[SA[mid + 2] + offset + 1] = mid_symbol
                 THEN search_right_steps(D, SA, text_symbol, offset,
                                         old_right_bound, mid + 1, right)
                 ELSE << >>)

\* the values of c, offset, leftmost and rightmost at the head of every
\* iteration of the main loop of next_token that reaches search_left, in
\* order
RECURSIVE token_loop_heads(_, _, _, _, _, _, _, _)
token_loop_heads(D, SA, src, io, c, offset, leftmost, rightmost) ==
    IF ~(io.read_counter <= Len(src)) \/ end_of_input(io) THEN << >>
    ELSE
      LET new_leftmost == search_left(D, SA, c, offset, leftmost, rightmost)
          new_rightmost ==
              search_right(D, SA, c, offset, new_leftmost, rightmost)
          g == getnext(src, io)
          head == [c |-> c, offset |-> offset, leftmost |-> leftmost,
                   rightmost |-> rightmost]
      IN  << head >> \o
          (IF new_leftmost < 0 \/ new_rightmost < 0
              \/ new_leftmost = new_rightmost \/ end_of_input(g.io)
           THEN << >>
           ELSE token_loop_heads(D, SA, src, g.io, g.c, offset + 1,
                                 new_leftmost, new_rightmost))

\* the loop heads of a call of Parser::next_token
Parser_next_token_heads(D, SA, src, io) ==
    LET g == getnext(src, io)
    IN  token_loop_heads(D, SA, src, g.io, g.c, 0, 0, Len(SA) - 1)

---------------------------------------------------------------------------
(* rlzparse: Parser::work on a dictionary, its suffix array and an input.  *)

DictInputs == SeqsUpTo(DictSyms, MaxDict)
SourceInputs == SeqsUpTo(InputSyms, MaxInput)
\* any bytes after the dictionary's array, or one fill byte throughout
HeapInputs == [1..MaxInput -> HeapVals]
HeapFills == { [i \in 1..MaxInput |-> v] : v \in HeapVals }

\* the state the Parser constructor leaves
ParserFresh ==
    /\ src_pos = 0 /\ src_eof = FALSE
    /\ has_unget = FALSE /\ unget_buffer = 0 /\ read_counter = 0
    /\ num_tokens = 0 /\ oob_read = FALSE
    /\ rlz_file = << >> /\ bytes_output = 0 /\ emitted = << >>
    /\ pending = << >>

\* rlzparse started on a dictionary with its sorted suffix array
InitFiles(Heaps) ==
    /\ dict \in DictInputs
    /\ sa = SuffixArrayOf(dict)
    /\ heap \in Heaps
    /\ source_file \in SourceInputs

\* rlzparse without -f: the output format is 32x2
InitParse ==
    /\ InitFiles(HeapInputs) /\ ParserFresh /\ ReaderFresh /\ WriterIdle
    /\ output_mode = FMT_32X2
    /\ exit_status = 0
    /\ pc = "parse"

parser_io ==
    [src_pos |-> src_pos, src_eof |-> src_eof, has_unget |-> has_unget,
     unget_buffer |-> unget_buffer, read_counter |-> read_counter]

\* the result of the call of next_token that Work makes in this state
this_token == Parser_next_token(dict, sa, heap, source_file, parser_io)

\* one iteration of the loop of Parser::work: next_token, then output_token
Work ==
    /\ pc = "parse"
    /\ LET r == this_token
           w == output_token(r.token, output_mode)
       IN  /\ src_pos' = r.io.src_pos
           /\ src_eof' = r.io.src_eof
           /\ has_unget' = r.io.has_unget
           /\ unget_buffer' = r.io.unget_buffer
           /\ read_counter' = r.io.read_counter
           /\ oob_read' = (oob_read \/ r.oob)
           /\ exit_status' = r.exit
           /\ IF r.exit # 0
              THEN /\ pc' = "done"
                   /\ UNCHANGED << rlz_file, bytes_output, emitted,
                                   num_tokens >>
              ELSE /\ rlz_file' = rlz_file \o w.out
                   /\ bytes_output' = bytes_output + Len(w.out)
                   /\ emitted' = IF is_end_sentinel(r.token) THEN emitted
                                 ELSE Append(emitted, r.token)
                   /\ num_tokens' = num_tokens + 1
                   /\ pc' = IF IsZero64(w.ret) THEN "parsed" ELSE "parse"
    /\ UNCHANGED << dict, sa, heap, source_file, output_mode, pending,
                    rd_pos, rd_eof, rd_fail, decoded, start_pos, stop_pos,
                    toks_read, syms_written, output_pos, outfile >>

NextParse == Work

SpecParse == InitParse /\ [][NextParse]_vars

---------------------------------------------------------------------------
(* rlzparse on a suffix array file of any contents: its length and its     *)
(* entries are whatever the file holds.                                    *)

MaxSA == 4

\* the dictionaries of these runs
AnySADicts == { << 97, 98 >>, << 97, 98, 97 >> }

\* files of up to MaxSA entries; the entry Len(D) points past the dictionary
AnySAs(D) == SeqsUpTo(0..Len(D), MaxSA)

\* inputs made of the dictionaries' symbols
AnySAInputs == SeqsUpTo(DictSyms, MaxInput)

InitAnySA ==
    /\ dict \in AnySADicts
    /\ sa \in AnySAs(dict)
    /\ heap \in HeapFills
    /\ source_file \in AnySAInputs
    /\ ParserFresh /\ ReaderFresh /\ WriterIdle
    /\ output_mode = FMT_32X2
    /\ exit_status = 0
    /\ pc = "parse"

NextAnySA == Work

SpecAnySA == InitAnySA /\ [][NextAnySA]_vars

---------------------------------------------------------------------------
(* OutputWriter<T> (rlzunparse.cpp).  long and long long are 64 bits wide. *)

\* the dictionary symbols D[from], ..., D[to - 1] for 0 <= from, to <= |D|
RECURSIVE DictRange(_, _, _)
DictRange(D, from, to) ==
    IF from >= to THEN << >>
    ELSE << D[from + 1] >> \o DictRange(D, from + 1, to)

\* OutputWriter::write_next: the symbols written and the value returned;
\* warned: the token was cut at the end of the dictionary; oob: the loop
\* read dict[x] at a negative x.  Such a read is outside the array: junk
\* is what the memory before it holds, junk[i] at dict[-i], and a read
\* further down faults
write_next(D, token, start, stop, junk) ==
    LET pos == token.start_pos
        len == token.length
        stop2 == IF SLe64(stop, U64Zero) THEN len ELSE stop
        token_end == Add64(pos, stop2)
        dict_size == U64(Len(D))
        token_end2 == IF SLt64(dict_size, token_end) THEN dict_size
                      ELSE token_end
        x == Add64(pos, start)
        \* the reads below dict[0]: from dict[x] up to dict[-1], or up to
        \* token_end when that is negative too
        down == Nat64(Neg64(x))
        below == IF IsNeg64(token_end2)
                 THEN down - Nat64(Neg64(token_end2)) ELSE down
    IN  IF IsZero64(len)
        THEN [out |-> << pos[1] % 256 >>, ret |-> U64One,
              warned |-> FALSE, oob |-> FALSE, fault |-> FALSE]
        ELSE IF ~SLt64(x, token_end2)
        THEN [out |-> << >>, ret |-> token.length,
              warned |-> SLt64(dict_size, token_end), oob |-> FALSE,
              fault |-> FALSE]
        ELSE IF IsNeg64(x)
        THEN IF ~FitsNat(Neg64(x)) \/ down > Len(junk)
             THEN [out |-> << >>, ret |-> token.length,
                   warned |-> SLt64(dict_size, token_end), oob |-> TRUE,
                   fault |-> TRUE]
             ELSE [out |-> [i \in 1..below |-> junk[down - i + 1]]
                           \o IF IsNeg64(token_end2) THEN << >>
                              ELSE DictRange(D, 0, Nat64(token_end2)),
                   ret |-> token.length,
                   warned |-> SLt64(dict_size, token_end), oob |-> TRUE,
                   fault |-> FALSE]
        ELSE [out |-> DictRange(D, Nat64(x), Nat64(token_end2)),
              ret |-> token.length,
              warned |-> SLt64(dict_size, token_end), oob |-> FALSE,
              fault |-> FALSE]

\* what the memory before the dictionary array can be: not readable, or
\* one readable byte
JunkReads == { << >>, << 0 >> }

\* the call of write_next, if any, that one iteration of unparse's loop
\* makes for the token tok; brk: the iteration leaves the loop
unparse_token(D, tok, I, J, out_pos, junk) ==
    LET effective_token_length ==
            IF IsZero64(tok.length) THEN U64One ELSE tok.length
        token_start_pos == Add64(out_pos, U64One)
        token_end_pos == Add64(out_pos, effective_token_length)
        whole == write_next(D, tok, U64Zero, U64Zero, junk)
        none == [out |-> << >>, ret |-> U64Zero, warned |-> FALSE,
                 oob |-> FALSE, fault |-> FALSE]
        from_start == Sub64(I, token_start_pos)
        to_stop == Sub64(Add64(tok.length, J), token_end_pos)
        Do(w, brk, newpos) == [w |-> w, brk |-> brk, output_pos |-> newpos]
    IN  IF IsZero64(I) /\ IsZero64(J)
        THEN Do(whole, FALSE, out_pos)
        ELSE IF IsPos64(I) /\ IsZero64(J)
        THEN IF SLe64(I, token_start_pos)
             THEN Do(whole, FALSE, token_end_pos)
             ELSE IF SLt64(token_start_pos, I) /\ SLe64(I, token_end_pos)
             THEN Do(write_next(D, tok, from_start, tok.length, junk),
                     FALSE, token_end_pos)
             ELSE Do(none, FALSE, token_end_pos)
        ELSE IF IsZero64(I) /\ IsPos64(J)
        THEN IF SLt64(token_end_pos, J)
             THEN Do(whole, FALSE, token_end_pos)
             ELSE IF SLe64(token_start_pos, J) /\ SLe64(J, token_end_pos)
             THEN Do(write_next(D, tok, U64Zero, to_stop, junk), FALSE,
                     token_end_pos)
             ELSE Do(none, TRUE, out_pos)
        ELSE IF SLt64(J, token_start_pos) \/ SLt64(token_end_pos, I)
        THEN IF SLt64(J, token_start_pos)
             THEN Do(none, TRUE, out_pos)
             ELSE Do(none, FALSE, token_end_pos)
        ELSE IF SLe64(I, token_start_pos) /\ SLe64(token_end_pos, J)
        THEN Do(whole, FALSE, token_end_pos)
        ELSE IF SLe64(token_start_pos, I) /\ SLe64(token_end_pos, J)
        THEN Do(write_next(D, tok, from_start, tok.length, junk), FALSE,
                token_end_pos)
        ELSE IF SLe64(I, token_start_pos) /\ SLe64(J, token_end_pos)
        THEN Do(write_next(D, tok, U64Zero, to_stop, junk), FALSE,
                token_end_pos)
        ELSE Do(write_next(D, tok, from_start, to_stop, junk), FALSE,
                token_end_pos)

---------------------------------------------------------------------------
(* rlzparse, then rlzunparse on the file it wrote.                         *)

\* the -a / -b arguments main passes on: 0 leaves a side open, and a start
\* after a positive stop is refused before unparse is called
Windows ==
    { w \in (0..MaxInput) \X (0..MaxInput) : ~(w[1] > w[2] /\ w[2] > 0) }

Init ==
    /\ InitFiles(HeapFills) /\ ParserFresh /\ ReaderFresh /\ WriterIdle
    /\ output_mode \in Formats
    /\ exit_status = 0
    /\ pc = "parse"

\* rlzunparse is started on the encoded file with the same dictionary
StartUnparse ==
    /\ pc = "parsed"
    /\ \E w \in Windows : start_pos' = w[1] /\ stop_pos' = w[2]
    /\ pc' = "unparse"
    /\ UNCHANGED << dict, sa, heap, source_file, src_pos, src_eof, has_unget,
                    unget_buffer, read_counter, output_mode, rlz_file,
                    bytes_output, num_tokens, emitted, pending, oob_read,
                    rd_pos, rd_eof, rd_fail, decoded, toks_read,
                    syms_written, output_pos, outfile, exit_status >>

\* one iteration of the while loop of OutputWriter::unparse, or its return
UnparseStep ==
    /\ pc = "unparse"
    /\ \E r \in { RLZInputReader_next_token(rlz_file, rd_pos, rd_eof,
                                            rd_fail, output_mode) } :
       \E junk \in JunkReads :
       \E u \in { unparse_token(dict, r.token, U64(start_pos),
                                U64(stop_pos), output_pos, junk) } :
           IF ~keep_going(rd_eof, rd_fail)
           THEN /\ pc' = "unparsed"
                /\ UNCHANGED << rd_pos, rd_eof, rd_fail, decoded, toks_read,
                                syms_written, output_pos, outfile,
                                exit_status, oob_read >>
           ELSE /\ rd_pos' = r.pos /\ rd_eof' = r.eof /\ rd_fail' = r.fail
                /\ IF r.exit # 0
                   THEN /\ pc' = "done"
                        /\ exit_status' = r.exit
                        /\ UNCHANGED << decoded, toks_read, syms_written,
                                        output_pos, outfile, oob_read >>
                   ELSE IF is_end_sentinel(r.token)
                   THEN /\ pc' = "unparsed"
                        /\ exit_status' = r.exit
                        /\ decoded' = Append(decoded, r.token)
                        /\ UNCHANGED << toks_read, syms_written, output_pos,
                                        outfile, oob_read >>
                   ELSE IF u.w.fault
                   THEN \* the process dies inside write_next; what it
                        \* wrote is still in the stream's buffer and is lost
                        /\ pc' = "done"
                        /\ exit_status' = EXIT_SEGV
                        /\ decoded' = Append(decoded, r.token)
                        /\ toks_read' = toks_read + 1
                        /\ outfile' = << >>
                        /\ oob_read' = TRUE
                        /\ UNCHANGED << syms_written, output_pos >>
                   ELSE /\ exit_status' = r.exit
                        /\ decoded' = Append(decoded, r.token)
                        /\ toks_read' = toks_read + 1
                        /\ syms_written' = Add64(syms_written, u.w.ret)
                        /\ outfile' = outfile \o u.w.out
                        /\ output_pos' = u.output_pos
                        /\ oob_read' = (oob_read \/ u.w.oob)
                        /\ pc' = IF u.brk THEN "unparsed" ELSE "unparse"
    /\ UNCHANGED << dict, sa, heap, source_file, src_pos, src_eof, has_unget,
                    unget_buffer, read_counter, output_mode, rlz_file,
                    bytes_output, num_tokens, emitted, pending, start_pos,
                    stop_pos >>

Next == Work \/ StartUnparse \/ UnparseStep

Spec == Init /\ [][Next]_vars

---------------------------------------------------------------------------
(* The vbyte decoder on arbitrary bytes: an RLZInputReader in vbyte mode   *)
(* is constructed on a file and read until the end sentinel or an exit.    *)

\* the longest run of bytes with the continuation bit in a file
MaxCont == 11

RECURSIVE Rep(_, _)
Rep(n, c) == IF n = 0 THEN << >> ELSE << c >> \o Rep(n - 1, c)

\* a run of continuation bytes, then at most one byte without the bit
VbyteFields ==
    { Rep(n, c) \o f : n \in 0..MaxCont, c \in { 128, 255 },
                       f \in { << >>, << 0 >>, << 1 >>, << 127 >> } }

\* nothing or a well-formed token, then two such fields
VbyteFiles ==
    { pre \o f1 \o f2 : pre \in { << >>, << 172, 2, 2 >> },
                        f1 \in VbyteFields, f2 \in VbyteFields }

InitDecode ==
    /\ ParserIdle /\ WriterIdle /\ ReaderFresh
    /\ pending = << >> /\ emitted = << >>
    /\ output_mode = FMT_VBYTE
    /\ rlz_file \in VbyteFiles
    /\ bytes_output = Len(rlz_file)
    /\ exit_status = 0
    /\ pc = "read"

NextDecode == ReadToken

SpecDecode == InitDecode /\ [][NextDecode]_vars

---------------------------------------------------------------------------
(* Properties of the token codec.                                          *)

\* both fields of a token are below 2^32
Fits32(t) ==
    /\ t.start_pos[3] = 0 /\ t.start_pos[4] = 0
    /\ t.length[3] = 0 /\ t.length[4] = 0

\* C7: a sequence of tokens with start_pos in [0, 2^64) and length in
\* [0, 2^63), written in order by output_token in format 64x2, vbyte or
\* ascii (or 32x2 when both fields of every token are below 2^32) and read
\* back by RLZInputReader::next_token, comes back token for token, followed
\* by the end sentinel, and the reader has then used up the whole file
C7_CodecRoundTrip ==
    (/\ pc = "done"
     /\ (output_mode = FMT_32X2 =>
            \A i \in DOMAIN emitted : Fits32(emitted[i])))
    => /\ exit_status = 0
       /\ decoded = Append(emitted, end_sentinel)
       /\ rd_pos = Len(rlz_file)

\* two tokens went through the vbyte format and came back
C7_Witness ==
    /\ pc = "done" /\ output_mode = FMT_VBYTE
    /\ Len(emitted) = 2 /\ pending = << >>
    /\ decoded = Append(emitted, end_sentinel)

\* C8: the bytes the vbyte encoder writes for a number N, N in [0, 2^64) as
\* start_pos and N in [0, 2^63) as length, decode to N: after one token was
\* written in vbyte format, the decoder's two loops run over the file give
\* back its two fields and stop at the file's end, and the token that
\* next_token then returns is the token written
C8_VbyteNumberRoundTrip ==
    (output_mode = FMT_VBYTE /\ Len(emitted) = 1 /\ pc # "write")
    => LET t == emitted[1]
           p == vbyte_loop(rlz_file, 0, U64Zero, 0, 64)
           l == vbyte_loop(rlz_file, p.pos, U64Zero, 0, 63)
       IN  /\ p.how = "break" /\ p.v = t.start_pos
           /\ l.how = "break" /\ l.v = t.length
           /\ l.pos = Len(rlz_file)
           /\ (Len(decoded) >= 1 => decoded[1] = t)

\* the largest start_pos with the largest length came back from vbyte
C8_Witness ==
    /\ output_mode = FMT_VBYTE /\ pc = "done"
    /\ Len(emitted) = 1 /\ Len(decoded) = 2
    /\ emitted[1].start_pos = ULLONG_MAX
    /\ emitted[1].length = << 65535, 65535, 65535, 32767 >>
    /\ decoded[1] = emitted[1]

\* the number of bits of a natural number, and of a 64-bit integer
RECURSIVE BitLenSmall(_)
BitLenSmall(n) == IF n = 0 THEN 0 ELSE 1 + BitLenSmall(n \div 2)

BitLength(x) ==
    IF x[4] # 0 THEN 48 + BitLenSmall(x[4])
    ELSE IF x[3] # 0 THEN 32 + BitLenSmall(x[3])
    ELSE IF x[2] # 0 THEN 16 + BitLenSmall(x[2])
    ELSE BitLenSmall(x[1])

\* bit j of x, and the k-th group of seven bits of x (k = 0 is the lowest)
BitAt(x, j) ==
    IF j >= 64 THEN 0 ELSE (x[(j \div 16) + 1] \div (2 ^ (j % 16))) % 2

Group7(x, k) ==
    BitAt(x, 7 * k) + 2 * BitAt(x, 7 * k + 1) + 4 * BitAt(x, 7 * k + 2)
    + 8 * BitAt(x, 7 * k + 3) + 16 * BitAt(x, 7 * k + 4)
    + 32 * BitAt(x, 7 * k + 5) + 64 * BitAt(x, 7 * k + 6)

\* the groups k, ..., n - 1 of x, all but the last with the high bit set
RECURSIVE GroupBytes(_, _, _)
GroupBytes(x, k, n) ==
    IF k >= n THEN << >>
    ELSE << Group7(x, k) + (IF k < n - 1 THEN 128 ELSE 0) >>
         \o GroupBytes(x, k + 1, n)

\* the bytes the format prescribes for the number x
VbyteOf(x) ==
    IF IsZero64(x) THEN << 0 >>
    ELSE GroupBytes(x, 0, (BitLength(x) + 6) \div 7)

RECURSIVE VbyteFileOf(_)
VbyteFileOf(toks) ==
    IF toks = << >> THEN << >>
    ELSE VbyteOf(Head(toks).start_pos) \o VbyteOf(Head(toks).length)
         \o VbyteFileOf(Tail(toks))

\* C9: in vbyte format the encoder writes the number 0 as the one byte
\* 0x00, and a number N > 0 as its groups of seven bits, lowest first, in
\* exactly ceil(bitlength(N) / 7) bytes, each but the last with the high
\* bit set and the last with it clear; a start_pos takes at most 10 bytes
\* and a length at most 9; bytes_output has grown by the bytes written
C9_VbyteShape ==
    output_mode = FMT_VBYTE
    => /\ rlz_file = VbyteFileOf(emitted)
       /\ bytes_output = Len(rlz_file)
       /\ \A i \in DOMAIN emitted :
            /\ vbyte_start_pos(emitted[i].start_pos)
                 = VbyteOf(emitted[i].start_pos)
            /\ vbyte_length(emitted[i].length) = VbyteOf(emitted[i].length)
            /\ Len(vbyte_start_pos(emitted[i].start_pos)) <= 10
            /\ Len(vbyte_length(emitted[i].length)) <= 9

\* a start_pos of ten bytes and a length of nine bytes have been written,
\* and so has a zero
C9_Witness ==
    /\ output_mode = FMT_VBYTE /\ pc = "read"
    /\ \E i \in DOMAIN emitted :
         /\ Len(vbyte_start_pos(emitted[i].start_pos)) = 10
         /\ Len(vbyte_length(emitted[i].length)) = 9
         /\ bytes_output = 19
    /\ rlz_file # << >>

\* how many bytes with the continuation bit follow one another from pos on
RECURSIVE ContRun(_, _)
ContRun(file, pos) ==
    IF pos < Len(file) /\ file[pos + 1] >= 128
    THEN 1 + ContRun(file, pos + 1) ELSE 0

\* the run of continuation bytes at pos is followed by a byte that ends it
FieldEnds(file, pos) == pos + ContRun(file, pos) < Len(file)

\* C10: a call of RLZInputReader::next_token in vbyte mode that meets a
\* start_pos field with more than 10 continuation bytes, or after a
\* start_pos field a length field with more than 9, ends the process with
\* EXIT_INVALID_INPUT and returns no token; a start_pos field of at most 10
\* bytes followed by a length field of at most 9 bytes is accepted: the
\* call returns a token and leaves the reader behind the two fields
C10_OverLongField ==
    [][ (ReadToken /\ output_mode = FMT_VBYTE /\ keep_going(rd_eof, rd_fail))
        => LET n1 == ContRun(rlz_file, rd_pos)
               p2 == rd_pos + n1 + 1
               n2 == ContRun(rlz_file, p2)
               pos_ok == n1 <= 9 /\ FieldEnds(rlz_file, rd_pos)
               over == n1 > 10 \/ (pos_ok /\ n2 > 9)
               within == pos_ok /\ n2 <= 8 /\ FieldEnds(rlz_file, p2)
           IN  /\ over => /\ exit_status' = EXIT_INVALID_INPUT
                          /\ decoded' = decoded
                          /\ pc' = "done"
               /\ within => /\ exit_status' = 0
                            /\ Len(decoded') = Len(decoded) + 1
                            /\ ~is_end_sentinel(decoded'[Len(decoded')])
                            /\ rd_pos' = p2 + n2 + 1
      ]_vars

\* eleven continuation bytes in a start_pos field have ended the process
C10_Witness ==
    /\ output_mode = FMT_VBYTE /\ pc = "done"
    /\ ContRun(rlz_file, 0) = 11
    /\ exit_status = EXIT_INVALID_INPUT /\ decoded = << >>

---------------------------------------------------------------------------
(* Properties of the parser.                                               *)

\* the input symbols no call of next_token has consumed yet: a symbol
\* pushed back with unget counts as not consumed
Unconsumed ==
    (IF has_unget THEN << unget_buffer >> ELSE << >>)
    \o SubSeq(source_file, src_pos + 1, Len(source_file))

\* how many input symbols have been consumed
Consumed == src_pos - (IF has_unget THEN 1 ELSE 0)

\* the symbol v occurs in D; the first l symbols of R stand in D at q
Occurs(v, D) == \E i \in 1..Len(D) : D[i] = v
StandsAt(R, l, D, q) ==
    q + l <= Len(D) /\ \A k \in 1..l : D[q + k] = R[k]

\* the length of the longest prefix of R that is a substring of D
LongestMatch(R, D) ==
    CHOOSE l \in 0..Len(R) :
        /\ \E q \in 0..Len(D) : StandsAt(R, l, D, q)
        /\ \A m \in (l + 1)..Len(R) :
              ~ \E q \in 0..Len(D) : StandsAt(R, m, D, q)

\* the token a step of Work has just appended to emitted
LastEmitted == emitted[Len(emitted)]

\* C3: every copy token (p, l) that next_token returns has l equal to the
\* length of the longest prefix of the not yet consumed input that occurs
\* as a substring of D
C3_Maximality ==
    [][ (Work /\ Len(emitted') = Len(emitted) + 1
              /\ IsPos64(LastEmitted'.length))
        => LastEmitted'.length = U64(LongestMatch(Unconsumed, dict))
      ]_vars

\* C4: next_token returns a literal (v, 0) only for a symbol v that occurs
\* nowhere in D, v being the next input symbol; and when the next input
\* symbol occurs in D, the token returned is a copy token of length >= 1
C4_LiteralGating ==
    [][ (Work /\ Unconsumed # << >>)
        => /\ exit_status' = 0
           /\ Len(emitted') = Len(emitted) + 1
           /\ IsZero64(LastEmitted'.length)
                => /\ LastEmitted'.start_pos = U64(Head(Unconsumed))
                   /\ ~Occurs(Head(Unconsumed), dict)
           /\ Occurs(Head(Unconsumed), dict) => IsPos64(LastEmitted'.length)
      ]_vars

\* a literal for a symbol outside D and a copy token have both been returned
C4_Witness ==
    /\ pc = "parsed"
    /\ \E i \in DOMAIN emitted :
         /\ IsZero64(emitted[i].length)
         /\ ~Occurs(Nat64(emitted[i].start_pos), dict)
    /\ \E j \in DOMAIN emitted :
         /\ IsPos64(emitted[j].length)
         /\ Occurs(source_file[1], dict)

\* the token lies inside the dictionary
InDict(D, t) == Nat64(t.start_pos) + Nat64(t.length) <= Len(D)

\* C5: every copy token (start_pos, length) with length > 0 that
\* next_token returns satisfies start_pos + length <= |D|
C5_TokenBounds ==
    \A i \in DOMAIN emitted :
        IsPos64(emitted[i].length) => InDict(dict, emitted[i])

\* the token is a literal or a copy token inside the dictionary
Expandable(D, t) == IsZero64(t.length) \/ InDict(D, t)

\* what a token stands for: D[start_pos .. start_pos + length) for a copy
\* token inside D, the symbol start_pos for a literal
Expansion(D, t) ==
    IF IsZero64(t.length) THEN << Nat64(t.start_pos) >>
    ELSE SubSeq(D, Nat64(t.start_pos) + 1,
                Nat64(t.start_pos) + Nat64(t.length))

RECURSIVE Expansions(_, _)
Expansions(D, toks) ==
    IF toks = << >> THEN << >>
    ELSE Expansion(D, Head(toks)) \o Expansions(D, Tail(toks))

\* C6: after every return of next_token the expansions of the tokens
\* returned so far, one after the other, are the input consumed so far,
\* and a symbol pushed back is the input symbol at the read position
C6_PrefixInvariant ==
    /\ \A i \in DOMAIN emitted : Expandable(dict, emitted[i])
    /\ (\A i \in DOMAIN emitted : Expandable(dict, emitted[i]))
         => Expansions(dict, emitted) = SubSeq(source_file, 1, Consumed)
    /\ has_unget => src_pos >= 1 /\ unget_buffer = source_file[src_pos]

---------------------------------------------------------------------------
(* Properties of rlzparse followed by rlzunparse.                          *)

\* rlzunparse has returned from unparse, or one of the programs has exited
Finished == pc \in { "unparsed", "done" }

\* the format can hold the tokens: 32x2 keeps only 32 bits of a field
FormatFits ==
    output_mode = FMT_32X2 => \A i \in DOMAIN emitted : Fits32(emitted[i])

\* C1: parsing an input I against D and its sorted suffix array with
\* Parser::work, writing the tokens with output_token in format 64x2,
\* ascii or vbyte (or 32x2 when every field is below 2^32), reading them
\* back with RLZInputReader and unparsing with unparse(0, 0) against the
\* same D writes exactly I
C1_RoundTrip ==
    (Finished /\ start_pos = 0 /\ stop_pos = 0 /\ FormatFits)
    => exit_status = 0 /\ outfile = source_file

\* C2: for bounds 1 <= a <= b <= |I|, unparse(start_pos = a, stop_pos = b)
\* on the token stream of I writes exactly the symbols at the 1-based
\* positions a..b of I
C2_WindowCorrect ==
    (/\ Finished /\ FormatFits
     /\ 1 <= start_pos /\ start_pos <= stop_pos
     /\ stop_pos <= Len(source_file))
    => exit_status = 0 /\ outfile = SubSeq(source_file, start_pos, stop_pos)

---------------------------------------------------------------------------
(* Properties of the decoder on arbitrary bytes.                           *)

\* the k-th group of seven bits of the vbyte field at pos (k = 0 first),
\* zero behind the byte that ends the field
FieldGroup(file, pos, k) ==
    IF k <= ContRun(file, pos) THEN file[pos + k + 1] % 128 ELSE 0

\* the number the groups of the field at pos stand for is below 2^bits
FieldFits(file, pos, bits) ==
    \A k \in 0..ContRun(file, pos) :
        /\ 7 * k >= bits => FieldGroup(file, pos, k) = 0
        /\ (7 * k < bits /\ bits < 7 * k + 7)
             => FieldGroup(file, pos, k) < 2 ^ (bits - 7 * k)

\* the 64-bit value v is the number the groups of the field at pos stand
\* for, the field fitting into 64 bits
FieldValueIs(v, file, pos) ==
    \A k \in 0..9 : Group7(v, k) = FieldGroup(file, pos, k)

\* C11: a token that next_token returns in vbyte mode carries in each field
\* the number its 7-bit groups stand for, and a token with a start_pos
\* field that stands for 2^64 or more, or a length field that stands for
\* 2^63 or more, ends the process with EXIT_INVALID_INPUT instead of
\* being returned
C11_VbyteOverflow ==
    [][ (/\ ReadToken /\ output_mode = FMT_VBYTE
         /\ keep_going(rd_eof, rd_fail)
         /\ FieldEnds(rlz_file, rd_pos)
         /\ FieldEnds(rlz_file, rd_pos + ContRun(rlz_file, rd_pos) + 1))
        => LET p2 == rd_pos + ContRun(rlz_file, rd_pos) + 1
               fits == /\ FieldFits(rlz_file, rd_pos, 64)
                       /\ FieldFits(rlz_file, p2, 63)
           IN  /\ ~fits => /\ exit_status' = EXIT_INVALID_INPUT
                           /\ decoded' = decoded
               /\ exit_status' = 0
                    => /\ fits
                       /\ Len(decoded') = Len(decoded) + 1
                       /\ FieldValueIs(decoded'[Len(decoded')].start_pos,
                                       rlz_file, rd_pos)
                       /\ FieldValueIs(decoded'[Len(decoded')].length,
                                       rlz_file, p2)
      ]_vars

---------------------------------------------------------------------------
(* rlzunparse on an encoded file of any origin: the file holds the bytes   *)
(* of a sequence of tokens, sound or not, and may have lost its last bytes.*)

\* bound of the encoded files: tokens per file
MaxStream == 3
\* how many bytes the file has lost at its end
Cuts == { 0, 1 }

UnparseDicts == { << 97, 98, 99 >> }

\* a copy token inside the dictionary, one that runs over its end, one
\* whose start_pos is beyond it and negative as a signed value, a literal,
\* and a token equal to the end sentinel
UnparseTokens ==
    { Token(0, 2), Token(1, 300),
      [start_pos |-> ULLONG_MAX, length |-> U64(2)],
      Token(200, 0), end_sentinel }

\* the bytes of a sequence of tokens in a format, with no framing
RECURSIVE EncodeTokens(_, _)
EncodeTokens(toks, mode) ==
    IF toks = << >> THEN << >>
    ELSE output_token_bytes(Head(toks), mode)
         \o EncodeTokens(Tail(toks), mode)

\* the file without its last cut bytes
CutOff(file, cut) ==
    SubSeq(file, 1, IF cut >= Len(file) THEN 0 ELSE Len(file) - cut)

InitUnparse ==
    /\ dict \in UnparseDicts
    /\ sa = SuffixArrayOf(dict)
    /\ heap = << >>
    /\ source_file = << >> /\ src_pos = 0 /\ src_eof = FALSE
    /\ has_unget = FALSE /\ unget_buffer = 0 /\ read_counter = 0
    /\ oob_read = FALSE /\ pending = << >>
    /\ ReaderFresh /\ WriterIdle
    /\ output_mode \in Formats
    /\ \E toks \in SeqsUpTo(UnparseTokens, MaxStream), cut \in Cuts :
         /\ emitted = toks
         /\ num_tokens = Len(toks)
         /\ bytes_output = Len(EncodeTokens(toks, output_mode))
         /\ rlz_file = CutOff(EncodeTokens(toks, output_mode), cut)
    /\ exit_status = 0
    /\ pc = "parsed"

NextUnparse == StartUnparse \/ UnparseStep

SpecUnparse == InitUnparse /\ [][NextUnparse]_vars

\* OutputWriter::unparse as one call: the loop from its head with the
\* reader at rd, run to its return.  out is what was written, decoded the
\* tokens next_token returned, exit the status if the process ended inside
\* the call
RECURSIVE unparse_loop(_, _, _, _, _, _, _)
unparse_loop(D, file, mode, I, J, junk, st) ==
    IF ~keep_going(st.eof, st.fail) THEN st
    ELSE CHOOSE res \in UNION {
           { IF r.exit # 0
             THEN [st EXCEPT !.exit = r.exit, !.pos = r.pos, !.eof = r.eof,
                             !.fail = r.fail]
             ELSE IF is_end_sentinel(r.token)
             THEN [st EXCEPT !.decoded = Append(st.decoded, r.token),
                             !.pos = r.pos, !.eof = r.eof, !.fail = r.fail]
             ELSE IF u.w.fault
             THEN [st EXCEPT !.decoded = Append(st.decoded, r.token),
                             !.toks_read = st.toks_read + 1,
                             !.pos = r.pos, !.eof = r.eof, !.fail = r.fail,
                             !.out = << >>, !.exit = EXIT_SEGV]
             ELSE IF u.brk
             THEN [st EXCEPT !.decoded = Append(st.decoded, r.token),
                             !.toks_read = st.toks_read + 1,
                             !.pos = r.pos, !.eof = r.eof, !.fail = r.fail]
             ELSE unparse_loop(D, file, mode, I, J, junk,
                      [pos |-> r.pos, eof |-> r.eof, fail |-> r.fail,
                       decoded |-> Append(st.decoded, r.token),
                       toks_read |-> st.toks_read + 1,
                       syms_written |-> Add64(st.syms_written, u.w.ret),
                       output_pos |-> u.output_pos,
                       out |-> st.out \o u.w.out,
                       exit |-> 0])
             : u \in { unparse_token(D, r.token, I, J, st.output_pos,
                                     junk) } }
           : r \in { RLZInputReader_next_token(file, st.pos, st.eof,
                                               st.fail, mode) } } : TRUE

\* unparse(start_pos, stop_pos) on a freshly opened reader
unparse(D, file, mode, I, J, junk) ==
    unparse_loop(D, file, mode, U64(I), U64(J), junk,
                 [pos |-> 0, eof |-> FALSE, fail |-> FALSE,
                  decoded |-> << >>, toks_read |-> 0,
                  syms_written |-> U64Zero, output_pos |-> U64Zero,
                  out |-> << >>, exit |-> 0])

\* bitwise or of two 16-bit numbers
RECURSIVE Or16(_, _)
Or16(a, b) ==
    IF a = 0 THEN b
    ELSE IF b = 0 THEN a
    ELSE (IF a % 2 = 1 \/ b % 2 = 1 THEN 1 ELSE 0)
         + 2 * Or16(a \div 2, b \div 2)

\* the value unparse returns, (toks_read << 32) | syms_written, as main
\* takes it apart: x >> 32 and x & 0xFFFFFFFF, each as two 16-bit limbs
unparse_return(toks, syms) ==
    LET x == << syms[1], syms[2],
                Or16(toks % LimbBase, syms[3]),
                Or16((toks \div LimbBase) % LimbBase, syms[4]) >>
    IN  [tokens_read |-> << x[3], x[4] >>,
         symbols_written |-> << x[1], x[2] >>]

---------------------------------------------------------------------------
(* Properties of rlzunparse on encoded streams (SpecUnparse).              *)

\* what write_next writes for a whole token: the symbol of a literal, the
\* part of D[start_pos .. start_pos + length) that lies inside D for a copy
ClippedExpansion(D, t) ==
    IF IsZero64(t.length) THEN << t.start_pos[1] % 256 >>
    ELSE IF ~FitsNat(t.start_pos) THEN << >>
    ELSE SubSeq(D, Nat64(t.start_pos) + 1,
                IF FitsNat(t.length)
                   /\ Nat64(t.start_pos) + Nat64(t.length) < Len(D)
                THEN Nat64(t.start_pos) + Nat64(t.length) ELSE Len(D))

RECURSIVE ClippedExpansions(_, _)
ClippedExpansions(D, toks) ==
    IF toks = << >> THEN << >>
    ELSE ClippedExpansion(D, Head(toks)) \o ClippedExpansions(D, Tail(toks))

\* the first k tokens handed to the encoder, and the length of their bytes
FirstTokens(k) == SubSeq(emitted, 1, k)
EncodedLen(k) == Len(EncodeTokens(FirstTokens(k), output_mode))

\* the encoded file ends inside token k + 1
PartialAfter(k) ==
    /\ k < Len(emitted)
    /\ EncodedLen(k) < Len(rlz_file)
    /\ Len(rlz_file) < EncodedLen(k + 1)

NoSentinelToken == \A i \in DOMAIN emitted : ~is_end_sentinel(emitted[i])

WholeWindow == start_pos = 0 /\ stop_pos = 0

\* C12: when a 32x2, 64x2 or vbyte stream (32x2: of tokens whose fields
\* are below 2^32) ends inside a token, the reader
\* returns the end sentinel for the partial token, unparse(0, 0) ends
\* without an error status, and the output is the expansion of the
\* complete tokens before the partial one
C12_TruncatedStream ==
    \A k \in 0..MaxStream :
        ( /\ Finished /\ WholeWindow /\ NoSentinelToken /\ FormatFits
          /\ output_mode \in { FMT_32X2, FMT_64X2, FMT_VBYTE }
          /\ PartialAfter(k) )
        => /\ pc = "unparsed" /\ exit_status = 0
           /\ decoded = Append(FirstTokens(k), end_sentinel)
           /\ toks_read = k
           /\ outfile = ClippedExpansions(dict, FirstTokens(k))

\* no call of next_token has returned yet
BeforeFirstRead == decoded = << >> /\ exit_status = 0

\* C13: once next_token has returned a token equal to the end sentinel,
\* keep_going() is false, and keep_going() is true before the first read
\* of any stream
C13_EndProtocol ==
    /\ BeforeFirstRead => keep_going(rd_eof, rd_fail)
    /\ (decoded # << >> /\ is_end_sentinel(decoded[Len(decoded)]))
       => ~keep_going(rd_eof, rd_fail)

\* token k + 1 of the stream is the first one equal to (2^64-1, -1), and
\* the file holds all its bytes
SentinelAfter(k) ==
    /\ k < Len(emitted)
    /\ emitted[k + 1] = end_sentinel
    /\ \A i \in 1..k : emitted[i] # end_sentinel
    /\ Len(rlz_file) >= EncodedLen(k + 1)

\* C14: when a 64x2 or ascii stream holds a token equal to (2^64-1, -1),
\* unparse stops at it: the token is not counted in toks_read, nothing
\* after it is read, and unparse(0, 0) has written the expansion of the
\* tokens before it
C14_InBandSentinel ==
    \A k \in 0..MaxStream :
        ( /\ Finished /\ output_mode \in { FMT_64X2, FMT_ASCII }
          /\ SentinelAfter(k) )
        => /\ pc = "unparsed" /\ exit_status = 0
           /\ toks_read <= k
           /\ Len(decoded) <= k + 1
           /\ rd_pos <= EncodedLen(k + 1)
           /\ WholeWindow
              => /\ toks_read = k
                 /\ decoded = Append(FirstTokens(k), end_sentinel)
                 /\ outfile = ClippedExpansions(dict, FirstTokens(k))

\* a copy token that runs over the end of D: start_pos + length > |D| as
\* numbers
OverLong(D, t) ==
    /\ IsPos64(t.length)
    /\ \/ ~FitsNat(t.start_pos) \/ ~FitsNat(t.length)
       \/ Nat64(t.start_pos) + Nat64(t.length) > Len(D)

\* the step is an iteration of unparse's loop that got a token, which is
\* then the last of decoded'
ReadsToken ==
    /\ UnparseStep
    /\ Len(decoded') = Len(decoded) + 1
    /\ ~is_end_sentinel(decoded'[Len(decoded')])

\* C15: for a copy token with start_pos + length > |D|, write_next writes
\* exactly D[start_pos .. |D|), nothing when start_pos >= |D|, warns, and
\* does not abort: unparse(0, 0) goes on with the following tokens
C15_OverLongToken ==
    [][ (ReadsToken /\ WholeWindow /\ OverLong(dict, decoded'[Len(decoded')]))
        => /\ outfile' = outfile
                         \o ClippedExpansion(dict, decoded'[Len(decoded')])
           /\ write_next(dict, decoded'[Len(decoded')], U64Zero, U64Zero,
                         << >>).warned
           /\ exit_status' = 0
           /\ pc' = "unparse"
      ]_vars

---------------------------------------------------------------------------
(* Further properties of the parser (SpecParse).                           *)

\* the smallest suffix-array index whose suffix begins with the first l
\* symbols of R
LeftmostWith(R, l) ==
    CHOOSE k \in 0..(Len(sa) - 1) :
        /\ StandsAt(R, l, dict, sa[k + 1])
        /\ \A j \in 0..(k - 1) : ~StandsAt(R, l, dict, sa[j + 1])

\* the call of next_token made by this step returns a copy token and has
\* run into the end of the input with nothing pushed back
EndsInMatch ==
    /\ Work /\ Len(emitted') = Len(emitted) + 1
    /\ IsPos64(LastEmitted'.length)
    /\ src_eof' /\ ~has_unget'

\* C16: when the input is exhausted while next_token is matching, the
\* token returned is (SA[leftmost], offset): its length is the number of
\* input symbols consumed for it, which are all the remaining ones, its
\* start is the suffix of the smallest index that begins with the symbols
\* matched in D, and the next call returns the end sentinel
C16_EndOfInputInMatch ==
    [][ EndsInMatch
        => /\ LastEmitted'.length = U64(Len(Unconsumed))
           /\ Len(Unconsumed) >= 1
           /\ src_pos' = Len(source_file)
           /\ LastEmitted'.start_pos =
                 U64(sa[LeftmostWith(Unconsumed,
                                     LongestMatch(Unconsumed, dict)) + 1])
           /\ Parser_next_token(dict, sa, heap, source_file,
                                parser_io').token = end_sentinel
      ]_vars

\* the input ended inside a match of two symbols that follows an earlier
\* token
C16_Witness ==
    /\ pc = "parse" /\ src_eof /\ ~has_unget
    /\ Len(emitted) >= 2
    /\ LastEmitted.length = U64(2)

\* the length of the run of d that R begins with
RECURSIVE RunLength(_, _)
RunLength(R, d) ==
    IF R = << >> \/ Head(R) # d THEN 0 ELSE 1 + RunLength(Tail(R), d)

\* a literal for each symbol other than d, one copy token (0, run length)
\* for each maximal run of d
RECURSIVE RunTokens(_, _)
RunTokens(R, d) ==
    IF R = << >> THEN << >>
    ELSE IF Head(R) # d
    THEN << Token(Head(R), 0) >> \o RunTokens(Tail(R), d)
    ELSE << Token(0, RunLength(R, d)) >>
         \o RunTokens(SubSeq(R, RunLength(R, d) + 1, Len(R)), d)

\* C17: with a dictionary of one symbol d and its suffix array, the parse
\* of any input is a literal (v, 0) for every symbol v # d and exactly one
\* copy token for each maximal run of d, of the run's length
C17_SingleSymbolDict ==
    (pc = "parsed" /\ Len(dict) = 1)
    => exit_status = 0 /\ emitted = RunTokens(source_file, dict[1])

\* a literal, or a copy token that lies inside D
InsideD(D, t) ==
    \/ IsZero64(t.length)
    \/ /\ IsPos64(t.length) /\ FitsNat(t.start_pos) /\ FitsNat(t.length)
       /\ InDict(D, t)

\* the tokens unparse reads from the file are literals and copy tokens
\* inside D, up to its end or a token equal to the sentinel
SoundStream ==
    LET all == unparse(dict, rlz_file, output_mode, 0, 0, << >>)
    IN  /\ all.exit = 0
        /\ \A i \in DOMAIN all.decoded :
              is_end_sentinel(all.decoded[i]) \/ InsideD(dict, all.decoded[i])

\* N: the total decoded length
DecodedLength == Len(unparse(dict, rlz_file, output_mode, 0, 0, << >>).out)

\* what unparse(I, J) writes for the file
Written(I, J) == unparse(dict, rlz_file, output_mode, I, J, << >>).out

\* C18: on a stream whose copy tokens lie inside D, with N the total
\* decoded length, unparse(0, J) writes what unparse(1, J) writes,
\* unparse(I, 0) what unparse(I, N) writes, and unparse(0, 0) what
\* unparse(1, N) writes; a finished run of unparse has written
\* Written(start_pos, stop_pos)
C18_OpenWindow ==
    /\ (pc = "parsed" /\ SoundStream)
       => /\ \A J \in 1..MaxInput : Written(0, J) = Written(1, J)
          /\ \A I \in 1..MaxInput :
                Written(I, 0) = Written(I, DecodedLength)
          /\ Written(0, 0) = Written(1, DecodedLength)
    /\ (Finished /\ SoundStream)
       => /\ exit_status = 0
          /\ outfile = Written(start_pos, stop_pos)

\* a run with only a start bound that cuts into the stream of two or more
\* tokens and writes the rest
C18_Witness ==
    /\ pc = "unparsed" /\ SoundStream
    /\ start_pos = 2 /\ stop_pos = 0
    /\ toks_read >= 2
    /\ DecodedLength >= 3
    /\ outfile = Written(2, DecodedLength)
    /\ Len(outfile) = DecodedLength - 1

\* the 1-based output position of the first symbol of the token that the
\* step reads
FirstPosition == Nat64(output_pos) + 1

U32(n) == << n % LimbBase, n \div LimbBase >>

\* how many of the tokens next_token returned are not the end sentinel
NonSentinelRead ==
    Cardinality({ i \in DOMAIN decoded : ~is_end_sentinel(decoded[i]) })

\* C20: when unparse returns, tokens_read is the number of non-sentinel
\* tokens read from the decoder and symbols_written is the number of
\* symbols written to the output
C20_ReturnValue ==
    pc = "unparsed"
    => /\ unparse_return(toks_read, syms_written).tokens_read
             = U32(NonSentinelRead)
       /\ unparse_return(toks_read, syms_written).symbols_written
             = U32(Len(outfile))

---------------------------------------------------------------------------
(* Properties of the parser on suffix arrays of any contents (SpecAnySA).  *)

\* SA is the sorted suffix array of D
ValidSA(D, SA) == SA = SuffixArrayOf(D)

\* C21: a run of the parser on a suffix array that is not the sorted
\* suffix array of the dictionary never completes the parse: it ends with
\* the exit status EXIT_BUG
C21_InvalidSADetected ==
    (~ValidSA(dict, sa) /\ pc \in { "parsed", "done" })
    => (pc = "done" /\ exit_status = EXIT_BUG)

\* the call of search_right that the loop head h leads to leaves its loop
\* by the while condition, after search_left returned the index L
RightSearchFellOut(h, L) ==
    LET steps == search_right_steps(dict, sa, h.c, h.offset, h.rightmost,
                                    L, h.rightmost)
        last == steps[Len(steps)]
    IN  last[1] > last[2]

\* k is an index of SA in [L, R] whose suffix has the symbol c at offset
MatchIn(k, L, R, offset, c) ==
    /\ k >= L /\ k <= R /\ k >= 0 /\ k < Len(sa)
    /\ sa[k + 1] + offset < Len(dict)
    /\ dict[sa[k + 1] + offset + 1] = c

\* C22: for every dictionary, suffix array contents and input, when
\* search_right, called after search_left succeeded, leaves its loop
\* without returning an index, its value is negative and next_token exits
\* with EXIT_BUG; a value next_token continues with is an index in
\* [leftmost, previous rightmost] whose suffix has c at offset
C22_FailedRightSearch ==
    pc = "parse" =>
        \A h \in { Parser_next_token_heads(dict, sa, source_file,
                                           parser_io)[i] :
                   i \in DOMAIN Parser_next_token_heads(dict, sa,
                                                        source_file,
                                                        parser_io) } :
            \A L \in { search_left(dict, sa, h.c, h.offset, h.leftmost,
                                   h.rightmost) } :
                L >= 0 =>
                  \A r \in { search_right(dict, sa, h.c, h.offset, L,
                                          h.rightmost) } :
                    /\ RightSearchFellOut(h, L)
                         => /\ r < 0
                            /\ this_token.exit = EXIT_BUG
                            /\ this_token.path = "failed_search"
                    /\ r >= 0 => MatchIn(r, L, h.rightmost, h.offset, h.c)
                    /\ ~RightSearchFellOut(h, L) => r >= 0

\* a run that ended in the exit of the failed right search
C22_Witness ==
    /\ pc = "done" /\ exit_status = EXIT_BUG
    /\ Len(sa) > 0 /\ source_file # << >>

---------------------------------------------------------------------------
(* Properties of the parser's searches and stream on valid data            *)
(* (SpecParse).                                                            *)

\* the loop heads of the call of next_token that Work makes in this state
this_token_heads ==
    Parser_next_token_heads(dict, sa, source_file, parser_io)

\* C23: with the sorted suffix array of the dictionary, no call of
\* next_token exits with EXIT_BUG: search_right never leaves its loop
\* without an index after search_left succeeded, and the code after the
\* token-finding loop is reached only when end_of_input() is true
C23_NoBugExit ==
    /\ exit_status # EXIT_BUG
    /\ pc = "parse" =>
         /\ this_token.exit = 0
         /\ this_token.path \notin { "failed_search", "outside_loop" }
         /\ this_token.path = "sentinel" => end_of_input(this_token.io)
         /\ \A i \in DOMAIN this_token_heads :
              \A L \in { search_left(dict, sa, this_token_heads[i].c,
                                     this_token_heads[i].offset,
                                     this_token_heads[i].leftmost,
                                     this_token_heads[i].rightmost) } :
                 L >= 0 => ~RightSearchFellOut(this_token_heads[i], L)

\* a parse that searched the suffix array with success, came to the code
\* after the loop and ended
C23_Witness ==
    /\ pc = "parsed" /\ exit_status = 0
    /\ Len(emitted) >= 2
    /\ \E i \in DOMAIN emitted : IsPos64(emitted[i].length)

\* the indices of SA whose suffix begins with the first l symbols of R
BeginWith(R, l) ==
    { k \in 0..(Len(sa) - 1) : StandsAt(R, l, dict, sa[k + 1]) }

\* C24: with the sorted suffix array, at the head of every iteration of
\* the main loop of next_token the range [leftmost, rightmost] holds
\* exactly the indices of SA whose suffix begins with the offset input
\* symbols consumed for the current token (the whole SA at offset 0), c
\* is the input symbol after them, and from one iteration to the next
\* leftmost does not decrease and rightmost does not increase
C24_SearchRange ==
    pc = "parse" =>
        \A i \in DOMAIN this_token_heads :
            \A h \in { this_token_heads[i] } :
                /\ h.offset = i - 1
                /\ h.offset < Len(Unconsumed)
                /\ h.c = Unconsumed[h.offset + 1]
                /\ h.leftmost..h.rightmost = BeginWith(Unconsumed, h.offset)
                /\ i = 1 => (h.leftmost = 0 /\ h.rightmost = Len(sa) - 1)
                /\ i > 1 =>
                     /\ h.leftmost >= this_token_heads[i - 1].leftmost
                     /\ h.rightmost <= this_token_heads[i - 1].rightmost

\* a call of next_token, after an earlier token, whose second iteration
\* starts with a range of several indices narrowed from the left
C24_Witness ==
    /\ pc = "parse" /\ num_tokens >= 1
    /\ Len(this_token_heads) >= 2
    /\ this_token_heads[2].leftmost > 0
    /\ this_token_heads[2].rightmost > this_token_heads[2].leftmost

\* the suffixes of the indices L..R of SA agree on their first offset
\* symbols
Agree(L, R, offset) ==
    \A m \in L..R :
        /\ sa[m + 1] + offset <= Len(dict)
        /\ \A j \in 1..offset : dict[sa[m + 1] + j] = dict[sa[L + 1] + j]

\* the indices m of L..R with D[SA[m] + offset] = c
Matches(L, R, offset, c) ==
    { m \in L..R : /\ sa[m + 1] + offset < Len(dict)
                   /\ dict[sa[m + 1] + offset + 1] = c }

Smallest(S) == CHOOSE m \in S : \A k \in S : m <= k
Largest(S) == CHOOSE m \in S : \A k \in S : m >= k

\* right - left gets strictly smaller from each evaluation of the while
\* condition to the next
Shrinks(steps) ==
    \A i \in 1..(Len(steps) - 1) :
        steps[i + 1][2] - steps[i + 1][1] < steps[i][2] - steps[i][1]

\* the symbols searched for: those of the inputs and the 0 of a failed read
SearchSyms == InputSyms \cup { 0 }

\* C25: over a range [L, R] of the sorted suffix array whose suffixes
\* agree on their first offset symbols, search_left returns the smallest m
\* of the range with D[SA[m] + offset] = c and search_right the largest;
\* when there is none search_left returns a negative value; and in both
\* right - left strictly decreases with each iteration (checked on the
\* dictionary and suffix array of every finished parse)
C25_BinarySearches ==
    pc = "parsed" =>
    \A L \in 0..(Len(sa) - 1) : \A R \in L..(Len(sa) - 1) :
      \A offset \in 0..Len(dict) : \A c \in SearchSyms :
        Agree(L, R, offset) =>
          /\ Matches(L, R, offset, c) # { } =>
               /\ search_left(dict, sa, c, offset, L, R)
                     = Smallest(Matches(L, R, offset, c))
               /\ search_right(dict, sa, c, offset, L, R)
                     = Largest(Matches(L, R, offset, c))
          /\ Matches(L, R, offset, c) = { } =>
               search_left(dict, sa, c, offset, L, R) < 0
          /\ Shrinks(search_left_steps(dict, sa, c, offset, L, L, R))
          /\ Shrinks(search_right_steps(dict, sa, c, offset, R, L, R))

\* a finished parse on a suffix array with a range in which the searches
\* for one symbol return two different inner indices
C25_Witness ==
    /\ pc = "parsed" /\ num_tokens >= 2
    /\ \E L \in 0..(Len(sa) - 1) : \E R \in L..(Len(sa) - 1) :
         \E offset \in 1..Len(dict) : \E c \in SearchSyms :
           /\ Agree(L, R, offset)
           /\ search_left(dict, sa, c, offset, L, R) > L
           /\ search_right(dict, sa, c, offset, L, R)
                 > search_left(dict, sa, c, offset, L, R)

\* this step of Work appends a copy token to emitted
EmitsCopy ==
    /\ Work /\ Len(emitted') = Len(emitted) + 1
    /\ IsPos64(LastEmitted'.length)

\* C26: with the sorted suffix array, the start_pos of every copy token
\* (p, l) is SA[k] for the smallest index k whose suffix begins with the l
\* input symbols the token stands for
C26_TieBreak ==
    [][ EmitsCopy
        => /\ FitsNat(LastEmitted'.length)
           /\ Nat64(LastEmitted'.length) <= Len(Unconsumed)
           /\ BeginWith(Unconsumed, Nat64(LastEmitted'.length)) # { }
           /\ LastEmitted'.start_pos =
                 U64(sa[Smallest(BeginWith(Unconsumed,
                                           Nat64(LastEmitted'.length))) + 1])
      ]_vars

\* C27: the pushback slot holds at most one symbol: the calls of getnext
\* less the calls of unget are the symbols taken from the file less the
\* one in the slot, so unget has not been called on a full slot; a symbol
\* in the slot is the last one read from the file, the next getnext
\* returns it and empties the slot; end_of_input() holds only with the
\* file at its end and the slot empty, and a call of next_token that
\* starts with a symbol in the slot returns a token for it, not the
\* sentinel
C27_SinglePushback ==
    /\ ~src_eof => read_counter = src_pos - (IF has_unget THEN 1 ELSE 0)
    /\ has_unget =>
         /\ ~src_eof /\ src_pos >= 1
         /\ unget_buffer = source_file[src_pos]
         /\ getnext(source_file, parser_io).c = unget_buffer
         /\ ~getnext(source_file, parser_io).io.has_unget
         /\ getnext(source_file, parser_io).io.src_pos = src_pos
         /\ ~end_of_input(parser_io)
    /\ end_of_input(parser_io)
         => (src_pos = Len(source_file) /\ ~has_unget)
    /\ (pc = "parse" /\ has_unget)
         => /\ this_token.exit = 0
            /\ ~is_end_sentinel(this_token.token)
            /\ this_token.io.src_pos - (IF this_token.io.has_unget
                                        THEN 1 ELSE 0) >= src_pos

\* the last symbol of the input has been pushed back after a token
C27_Witness ==
    /\ pc = "parse" /\ has_unget
    /\ src_pos = Len(source_file) /\ num_tokens >= 1

---------------------------------------------------------------------------
(* Progress of the parser on suffix arrays of any contents (SpecAnySA).    *)

\* how many input symbols the token t stands for
Covered(t) == IF IsZero64(t.length) THEN 1 ELSE Nat64(t.length)

\* every token that a step of Work appends stands for at least one input
\* symbol, and for exactly the symbols this call took from the input
TokensAdvance ==
    [][ (Work /\ Len(emitted') = Len(emitted) + 1)
        => /\ FitsNat(LastEmitted'.length)
           /\ Covered(LastEmitted') >= 1
           /\ Consumed' = Consumed + Covered(LastEmitted')
      ]_vars

\* at most n tokens for an input of n symbols; once the input is consumed
\* the next call returns the sentinel, work stops, and further calls
\* return the sentinel again
SentinelEnds ==
    /\ Len(emitted) <= Len(source_file)
    /\ Consumed <= Len(source_file)
    /\ (pc = "parse" /\ Consumed = Len(source_file))
         => (this_token.exit = 0 /\ is_end_sentinel(this_token.token))
    /\ pc = "parsed"
         => /\ Consumed = Len(source_file)
            /\ num_tokens = Len(emitted) + 1
            /\ this_token.exit = 0 /\ is_end_sentinel(this_token.token)

---------------------------------------------------------------------------
(* Memory safety of the parser (SpecParse) and of the unparser             *)
(* (SpecUnparse).                                                          *)

\* the indices mid that a search probes lie in the suffix array
ProbesInSA(steps) ==
    \A i \in DOMAIN steps :
        steps[i][1] <= steps[i][2]
        => /\ (steps[i][1] + steps[i][2]) \div 2 >= 0
           /\ (steps[i][1] + steps[i][2]) \div 2 < Len(sa)

\* C29: with the sorted suffix array, every read of the dictionary made by
\* next_token and its searches is inside the dictionary's array, and
\* every probe of the searches is inside the suffix array
C29_ParserReadsInBounds ==
    /\ ~oob_read
    /\ pc = "parse" =>
         \A i \in DOMAIN this_token_heads :
           \A h \in { this_token_heads[i] } :
             /\ ProbesInSA(search_left_steps(dict, sa, h.c, h.offset,
                                             h.leftmost, h.leftmost,
                                             h.rightmost))
             /\ \A L \in { search_left(dict, sa, h.c, h.offset, h.leftmost,
                                       h.rightmost) } :
                  L >= 0 =>
                    ProbesInSA(search_right_steps(dict, sa, h.c, h.offset,
                                                  h.rightmost, L,
                                                  h.rightmost))

\* C30: for every token stream a decoder can produce and every window,
\* every read dict[x] made by write_next has 0 <= x < |D|: no read below
\* or above the dictionary's array happens and the unparser does not die
\* of one
C30_UnparserReadsInBounds ==
    /\ ~oob_read
    /\ exit_status # EXIT_SEGV

=============================================================================
